---- MODULE Spec2Model ----
(***************************************************************************)
(* Looking Glass control-surface runtime: the MCP server (tool registry    *)
(* and dispatch), the HTTP+SSE and WebSocket transports, and the event bus.*)
(***************************************************************************)
EXTENDS Integers, Sequences, FiniteSets, TLC

(***************************************************************************)
(* Bounds of the model.                                                    *)
(***************************************************************************)
MaxCalls == 2
MaxRegs == 2
MaxResRegs == 2
MaxReads == 2

TransportIds == {"A", "B"}
\* A WebSocketTransport, whose connect() settles when its socket opens or fails.
RemoteIds == {"R"}
ToolNames == {"echo", "boom"}
ParamValues == {1, 2}

NoVal == "undefined"
NoData == <<>>

MaxSockets == 2
MaxReqSockets == 1
MaxRequests == 2
MaxAttemptsOpt == 2
MaxTimers == 2
MaxSubs == 2
MaxDepth == 1
MaxAsync == 1
MaxOverlap == 2
MaxListeners == 3
MaxNotes == 2
MaxOps == 3
MaxSims == 2
MaxInbound == 2

VARIABLES
    tools,        \* MCPServer.tools: Map from name to definition
    calls,        \* callTool invocations, in order of invocation
    regs,         \* number of registerTool/unregisterTool calls made
    busEvents,    \* events handed to EventBus.emit by the server, in order
    doneOrder,    \* indices of the invocations in the order their promises settled
    registered,   \* per name: the definition most recently handed to registerTool
    resourceHandlers,     \* MCPServer.resourceHandlers (and resources): entries in insertion order
    resRegs,      \* number of registerResource/unregisterResource calls made
    lastRead,     \* the latest readResource(): its argument and what it did
    kind,         \* which transport class is instantiated: "sse" or "ws"
    maxReconnectAttempts, \* options.maxReconnectAttempts
    connected,    \* BaseTransport.connected
    socks,        \* every EventSource / WebSocket created by connect(), in order
    cur,          \* this.eventSource / this.socket: index into socks, 0 = null
    reconnectAttempts,    \* this.reconnectAttempts
    timers,       \* reconnect timers set by setTimeout and not yet fired
    pendingRequests,      \* WebSocketTransport.pendingRequests: set of ids
    requestCounter,       \* WebSocketTransport.requestCounter
    reqs,         \* per request id: its promise, its timeout timer, what happened
    lastSent,     \* the frame most recently handed to socket.send()
    sinceOpen,    \* reconnect attempts scheduled since the last successful open
    retrying,     \* an open connection was lost and not yet reopened or given up by the user
    subscriptions,        \* EventBus.subscriptions: Map from event to Subscription[]
    subscriptionCounter,  \* EventBus.subscriptionCounter
    closures,     \* the unsubscribe functions returned so far: id -> event
    lastEmit,     \* the latest emit(): its arguments, the list it found, the calls it made
    unsubscribed, \* ids of the unsubscribe functions that have been called
    removed,      \* ids of the subscriptions unsubscribe, off() or clear() removed
    passes,       \* the emitAsync() calls made so far, in order
    transport,    \* MCPServer.transport: the attached transport or null
    lastAttached, \* the argument of the latest setTransport call
    attached,     \* every transport that has been handed to setTransport
    tstate,       \* per transport object: BaseTransport.connected and its inbound handlers
    life,         \* the start()/stop() calls made so far, in order
    outbox,       \* the notifications handed to a transport's sendNotification, in order
    sims,         \* the simulateToolCall/simulateResourceRead calls made so far
    toolCallHandler,      \* BaseTransport.toolCallHandler of the remote transport: set or not
    resourceReadHandler,  \* BaseTransport.resourceReadHandler of the remote transport: set or not
    inbound,      \* the envelopes and events the remote transport has received, in order
    notes,        \* the sendNotification calls made on the remote transport, in order
    notificationListeners, \* EmbeddedTransport.notificationListeners
    registrations,        \* the functions returned by onNotification so far: the listener each holds
    released,     \* the onNotification calls undone by their returned function or by disconnect()
    lastNote,     \* the latest EmbeddedTransport.sendNotification: the list it found, the calls it made
    store,        \* the state sink: themes, ui.theme and shell.tabs
    lastTool      \* the latest built-in tool handler run: its arguments, its result, the sink before

resVars == <<resourceHandlers, resRegs, lastRead>>
serverVars == <<tools, calls, regs, doneOrder, registered, resVars>>
connVars == <<kind, maxReconnectAttempts, connected, socks, cur,
              reconnectAttempts, timers, sinceOpen, retrying>>
reqVars == <<pendingRequests, requestCounter, reqs, lastSent>>
transportVars == <<connVars, reqVars>>
wiringVars == <<transport, lastAttached, attached, tstate, life, outbox, sims>>
inboundVars == <<toolCallHandler, resourceReadHandler, inbound>>
outerVars == <<notes, notificationListeners, registrations, released, lastNote, store,
              lastTool>>
linkVars == <<wiringVars, inboundVars, outerVars>>
busVars == <<subscriptions, subscriptionCounter, closures, lastEmit, unsubscribed, removed,
            passes>>
vars == <<serverVars, busEvents, transportVars, busVars, linkVars>>

(***************************************************************************)
(* MCPServer: tools                                                        *)
(***************************************************************************)
\* What a registered handler does when it is invoked.
\*   ok         async, resolves with {success: true, data: params}
\*   fail       async, resolves with its own {success: false, error: ...}
\*   throwSync  throws an Error before returning a promise
\*   reject     returns a promise that rejects with an Error
\*   rejectStr  returns a promise that rejects with a non-Error value
\*   rejectBare returns a promise that rejects with a non-Error value that
\*              has no string conversion, such as Object.create(null)
HandlerKinds == {"ok", "fail", "reject", "rejectStr", "rejectBare", "throwSync"}
\* A definition registered without a handler has handler = NoVal.
ToolDefs == [handler : HandlerKinds \cup {NoVal}]

ToolResult(success, data, error) ==
    [success |-> success, data |-> data, error |-> error]

\* The value an async handler resolves with.
HandlerReturn(h, name, params) ==
    IF h = "ok" THEN ToolResult(TRUE, <<name, params>>, NoVal)
    ELSE ToolResult(FALSE, NoData, "declined:" \o name)

\* What an expression evaluates to when evaluating it throws a TypeError.
Throws == "throws TypeError"

\* error instanceof Error ? error.message : String(error)
ErrorMessage(h, name) ==
    IF h = "rejectBare" THEN Throws
    ELSE IF h = "rejectStr" THEN "String(" \o name \o ")"
    ELSE "Error:" \o name

\* eventBus.emit(event, payload) as the server calls it.
BusEmit(log, event, payload) == Append(log, <<event, payload>>)

\* The payloads callTool publishes: {name, params} before the handler runs
\* and {name, params, result} once it has settled.  The first has no result
\* field, written here as the empty result.
NoResult == [success |-> FALSE, data |-> NoData, error |-> NoVal]
CallPayload(c) == [name |-> c.name, params |-> c.params, result |-> NoResult]
ResultPayload(c, result) == [name |-> c.name, params |-> c.params, result |-> result]

\* listTools(): the values of the Map, one per key.
ListTools(map) == {<<n, map[n]>> : n \in DOMAIN map}

\* registerTool leaving a definition that is already present as it is.
RegisterTool_KeepOld(name, def) ==
    /\ regs < MaxRegs
    /\ regs' = regs + 1
    /\ tools' = [n \in DOMAIN tools \cup {name} |->
                    IF n \in DOMAIN tools THEN tools[n] ELSE def]
    /\ registered' = [n \in DOMAIN registered \cup {name} |->
                         IF n = name THEN def ELSE registered[n]]
    /\ UNCHANGED <<calls, busEvents, doneOrder, resVars, transportVars, busVars, linkVars>>

\* registerTool(tool): tools.set(tool.name, tool)
RegisterTool(name, def) ==
    /\ regs < MaxRegs
    /\ regs' = regs + 1
    /\ tools' = [n \in DOMAIN tools \cup {name} |->
                    IF n = name THEN def ELSE tools[n]]
    /\ registered' = [n \in DOMAIN registered \cup {name} |->
                         IF n = name THEN def ELSE registered[n]]
    /\ UNCHANGED <<calls, busEvents, doneOrder, resVars, transportVars, busVars, linkVars>>

UnregisterTool(name) ==
    /\ regs < MaxRegs
    /\ regs' = regs + 1
    /\ tools' = [n \in DOMAIN tools \ {name} |-> tools[n]]
    /\ registered' = [n \in DOMAIN registered \ {name} |-> registered[n]]
    /\ UNCHANGED <<calls, busEvents, doneOrder, resVars, transportVars, busVars, linkVars>>

\* A settled invocation: the promise callTool returned, with the value it
\* resolved to (or, in the result slot, the reason it rejected with).
Resolved(c, result) == [c EXCEPT !.st = "resolved", !.result = result]
Rejected(c, reason) == [c EXCEPT !.st = "rejected", !.result = reason]

\* The catch block of callTool.  It builds the error result first; when
\* converting the error throws, the block is left there: nothing is
\* published and the promise of callTool rejects with the TypeError.
CallToolCatch(c, log) ==
    LET error == ErrorMessage(c.handler, c.name)
        errorResult == ToolResult(FALSE, NoData, error)
    IN  IF error = Throws
        THEN [call |-> Rejected(c, errorResult), log |-> log]
        ELSE [call |-> Resolved(c, errorResult),
              log  |-> BusEmit(log, "mcp:tool:result", ResultPayload(c, errorResult))]

\* callTool up to the first await.
CallToolStart(name, params) ==
    LET c0 == [st |-> "new", name |-> name, params |-> params,
               found |-> name \in DOMAIN tools,
               handler |-> NoVal, result |-> ToolResult(FALSE, NoData, NoVal)]
    IN  IF name \notin DOMAIN tools
        THEN [call |-> Resolved(c0, ToolResult(FALSE, NoData, "Tool not found: " \o name)),
              log |-> busEvents]
        ELSE IF tools[name].handler = NoVal
        THEN [call |-> Resolved(c0, ToolResult(FALSE, NoData, "Tool has no handler: " \o name)),
              log |-> busEvents]
        ELSE LET tool == tools[name]
                 c1 == [c0 EXCEPT !.handler = tool.handler]
                 log1 == BusEmit(busEvents, "mcp:tool:call", CallPayload(c1))
             IN  IF tool.handler = "throwSync"
                 THEN CallToolCatch(c1, log1)
                 ELSE [call |-> [c1 EXCEPT !.st = "awaiting"], log |-> log1]

CallTool(name, params) ==
    /\ Len(calls) < MaxCalls
    /\ LET r == CallToolStart(name, params)
       IN  /\ calls' = Append(calls, r.call)
           /\ busEvents' = r.log
           /\ doneOrder' = IF r.call.st = "awaiting" THEN doneOrder
                           ELSE Append(doneOrder, Len(calls) + 1)
    /\ UNCHANGED <<tools, regs, registered, resVars, transportVars, busVars, linkVars>>

\* callTool after the awaited handler promise has settled.
CallToolResume(c, log) ==
    IF c.handler \in {"reject", "rejectStr", "rejectBare"}
    THEN CallToolCatch(c, log)
    ELSE LET result == HandlerReturn(c.handler, c.name, c.params)
         IN  [call |-> Resolved(c, result),
              log  |-> BusEmit(log, "mcp:tool:result", ResultPayload(c, result))]

HandlerSettles(i) ==
    /\ i \in DOMAIN calls
    /\ calls[i].st = "awaiting"
    /\ LET r == CallToolResume(calls[i], busEvents)
       IN  /\ calls' = [calls EXCEPT ![i] = r.call]
           /\ busEvents' = r.log
           /\ doneOrder' = Append(doneOrder, i)
    /\ UNCHANGED <<tools, regs, registered, resVars, transportVars, busVars, linkVars>>

\* new MCPServer(): empty registries, nothing in flight.
ServerIdle ==
    /\ tools = [n \in {} |-> NoVal]
    /\ calls = <<>>
    /\ regs = 0
    /\ busEvents = <<>>
    /\ doneOrder = <<>>
    /\ registered = [n \in {} |-> NoVal]
    /\ resourceHandlers = <<>>
    /\ resRegs = 0
    /\ lastRead = [uri |-> <<>>, before |-> <<>>, handler |-> 0, arg |-> <<>>,
                   log |-> <<>>, promise |-> NoVal]

\* A transport as its constructor leaves it.
TransportIdle ==
    /\ connected = FALSE
    /\ socks = <<>>
    /\ cur = 0
    /\ reconnectAttempts = 0
    /\ timers = 0
    /\ pendingRequests = {}
    /\ requestCounter = 0
    /\ reqs = <<>>
    /\ lastSent = [type |-> NoVal, id |-> 0]
    /\ sinceOpen = 0
    /\ retrying = FALSE

\* new EventBus(): no subscriptions.
BusIdle ==
    /\ subscriptions = [e \in {} |-> <<>>]
    /\ subscriptionCounter = 0
    /\ closures = <<>>
    /\ lastEmit = [event |-> NoVal, data |-> 0, before |-> <<>>, log |-> <<>>,
                   trace |-> <<>>, threw |-> FALSE]
    /\ unsubscribed = {}
    /\ removed = {}
    /\ passes = <<>>

\* The store as created: no theme registered, the theme id "terminal"
\* selected, no tab open.
initialState ==
    [themes |-> {}, theme |-> "terminal", tabs |-> [items |-> <<>>, activeId |-> "null"]]

\* A server with no transport attached (MCPServer.transport = null), and
\* transports whose constructors have just run: not connected, no inbound
\* handler set, nothing received.
LinkIdle ==
    /\ transport = NoVal
    /\ lastAttached = NoVal
    /\ attached = {}
    /\ tstate = [t \in TransportIds \cup RemoteIds |->
                    IF t \in RemoteIds
                    THEN [connected |-> FALSE, toolCallHandler |-> FALSE,
                          resourceReadHandler |-> FALSE, socket |-> 0]
                    ELSE [connected |-> FALSE, toolCallHandler |-> FALSE,
                          resourceReadHandler |-> FALSE]]
    /\ life = <<>>
    /\ outbox = <<>>
    /\ sims = <<>>
    /\ toolCallHandler = FALSE
    /\ resourceReadHandler = FALSE
    /\ inbound = <<>>
    /\ notes = <<>>
    /\ notificationListeners = <<>>
    /\ registrations = <<>>
    /\ released = {}
    /\ lastNote = [n |-> 0, before |-> <<>>, calls |-> <<>>]
    /\ store = initialState
    /\ lastTool = [name |-> NoVal, id |-> NoVal, success |-> FALSE, threw |-> FALSE,
                   event |-> NoVal, before |-> store]

\* Everything as constructed: a server with nothing registered and no
\* transport, an empty bus, transports that were never connected (a
\* WebSocketTransport that does not reconnect, where the transport matters).
InitIdle ==
    /\ ServerIdle
    /\ TransportIdle
    /\ BusIdle
    /\ LinkIdle
    /\ kind = "ws"
    /\ maxReconnectAttempts = 0

NextServer ==
    \/ \E n \in ToolNames, d \in ToolDefs : RegisterTool(n, d)
    \/ \E n \in ToolNames : UnregisterTool(n)
    \/ \E n \in ToolNames, p \in ParamValues : CallTool(n, p)
    \/ \E i \in 1..MaxCalls : HandlerSettles(i)

SpecServer == InitIdle /\ [][NextServer]_vars

(***************************************************************************)
(* MCPServer: resources                                                    *)
(***************************************************************************)
\* Resource uris are strings over a small alphabet; "*" is the wildcard.
Uris == UNION {[1..n -> {"a", "*"}] : n \in {1, 2}}

\* pattern.replace(/\*$/, '')
StripStar(pattern) ==
    IF Len(pattern) > 0 /\ pattern[Len(pattern)] = "*"
    THEN SubSeq(pattern, 1, Len(pattern) - 1)
    ELSE pattern

\* uri.startsWith(prefix)
StartsWith(uri, prefix) ==
    /\ Len(prefix) <= Len(uri)
    /\ SubSeq(uri, 1, Len(prefix)) = prefix

\* Position of the key in an insertion-ordered Map, 0 when it is absent.
KeyIndex(entries, key) ==
    IF \E i \in DOMAIN entries : entries[i].uri = key
    THEN CHOOSE i \in DOMAIN entries : entries[i].uri = key
    ELSE 0

\* Map.set on an insertion-ordered Map: an existing key keeps its position.
OrderedSet(entries, key, handler) ==
    IF KeyIndex(entries, key) # 0
    THEN [entries EXCEPT ![KeyIndex(entries, key)].handler = handler]
    ELSE Append(entries, [uri |-> key, handler |-> handler])

\* Map.delete
OrderedDelete(entries, key) ==
    SelectSeq(entries, LAMBDA e : e.uri # key)

\* The first entry, in insertion order, that uri starts with (0 when none).
FirstPrefixMatch(entries, uri) ==
    LET Matches(i) == StartsWith(uri, StripStar(entries[i].uri))
    IN  IF \E i \in DOMAIN entries : Matches(i)
        THEN CHOOSE i \in DOMAIN entries :
                 Matches(i) /\ \A j \in DOMAIN entries : Matches(j) => i <= j
        ELSE 0

\* The lookup of readResource scanning the prefixes without trying the
\* exact key first.
FindHandler_ScanOnly(entries, uri) ==
    FirstPrefixMatch(entries, uri)

\* The lookup of readResource: the exact key, else the prefix scan.
FindHandler(entries, uri) ==
    IF KeyIndex(entries, uri) # 0
    THEN KeyIndex(entries, uri)
    ELSE FirstPrefixMatch(entries, uri)

\* registerResource(resource, handler); the handler is named by the number
\* of the registration that brought it.
RegisterResource(uri) ==
    /\ resRegs < MaxResRegs
    /\ resRegs' = resRegs + 1
    /\ resourceHandlers' = OrderedSet(resourceHandlers, uri, resRegs + 1)
    /\ UNCHANGED <<lastRead, tools, calls, regs, doneOrder, registered, busEvents,
                   transportVars, busVars, linkVars>>

UnregisterResource(uri) ==
    /\ resRegs < MaxResRegs
    /\ resRegs' = resRegs + 1
    /\ resourceHandlers' = OrderedDelete(resourceHandlers, uri)
    /\ UNCHANGED <<lastRead, tools, calls, regs, doneOrder, registered, busEvents,
                   transportVars, busVars, linkVars>>

\* readResource(uri): not found rejects; otherwise the event is published,
\* the handler is called with uri and its promise is returned.
ReadResourceResult(uri) ==
    LET i == FindHandler(resourceHandlers, uri)
    IN  IF i = 0
        THEN [uri |-> uri, before |-> resourceHandlers, handler |-> 0,
              arg |-> <<>>, log |-> <<>>,
              promise |-> "rejected: Resource not found"]
        ELSE [uri |-> uri, before |-> resourceHandlers,
              handler |-> resourceHandlers[i].handler, arg |-> uri,
              log |-> <<"mcp:resource:read", "handler">>,
              promise |-> "handler's"]

\* How many events of one name the server has published.
Published(event) == Len(SelectSeq(busEvents, LAMBDA e : e[1] = event))

\* The events on the bus after readResource(uri): one more when a handler
\* was found.
ReadResourceEmits(uri) ==
    IF FindHandler(resourceHandlers, uri) = 0 THEN busEvents
    ELSE BusEmit(busEvents, "mcp:resource:read", [uri |-> uri])

ReadResource(uri) ==
    /\ FindHandler(resourceHandlers, uri) = 0 \/ Published("mcp:resource:read") < MaxReads
    /\ lastRead' = ReadResourceResult(uri)
    /\ busEvents' = ReadResourceEmits(uri)
    /\ UNCHANGED <<resourceHandlers, resRegs, tools, calls, regs, doneOrder, registered,
                   transportVars, busVars, linkVars>>

NextResources ==
    \/ \E u \in Uris : RegisterResource(u)
    \/ \E u \in Uris : UnregisterResource(u)
    \/ \E u \in Uris : ReadResource(u)

SpecResources == InitIdle /\ [][NextResources]_vars

(***************************************************************************)
(* MCPServer: notifications, transport attachment, lifecycle               *)
(***************************************************************************)
\* A Notification as handed to MCPServer.emit: its optional timestamp.
Notifications == [type : {"state:changed"}, timestamp : {NoVal, "5"}]

\* {...notification, timestamp: notification.timestamp ?? Date.now()}
Enrich(n) == [n EXCEPT !.timestamp = IF @ = NoVal THEN "now" ELSE @]

\* An outbound hand-off: transport.sendNotification(n) on transport `to`,
\* made when `after` events had been published on the Event Bus.
Handoff(to, n, after) == [to |-> to, n |-> n, after |-> after]

\* emit handing the notification to the transport before publishing it.
ServerEmit_SendFirst(n) ==
    LET enrichedNotification == Enrich(n)
    IN  /\ Published("mcp:notification") + Len(life) < MaxOps
        /\ outbox' = IF transport # NoVal
                     THEN Append(outbox, Handoff(transport, enrichedNotification,
                                                 Len(busEvents)))
                     ELSE outbox
        /\ busEvents' = BusEmit(busEvents, "mcp:notification", enrichedNotification)
        /\ UNCHANGED <<serverVars, transportVars, busVars, transport, lastAttached, attached,
                       tstate, life, sims, inboundVars, outerVars>>

\* MCPServer.emit(notification)
ServerEmit(n) ==
    LET enrichedNotification == Enrich(n)
    IN  /\ Published("mcp:notification") + Len(life) < MaxOps
        /\ busEvents' = BusEmit(busEvents, "mcp:notification", enrichedNotification)
        /\ outbox' = IF transport # NoVal
                     THEN Append(outbox, Handoff(transport, enrichedNotification,
                                                 Len(busEvents')))
                     ELSE outbox
        /\ UNCHANGED <<serverVars, transportVars, busVars, transport, lastAttached, attached,
                       tstate, life, sims, inboundVars, outerVars>>

\* setTransport that keeps a transport already attached.
SetTransport_KeepFirst(t) ==
    /\ transport' = IF transport = NoVal THEN t ELSE transport
    /\ lastAttached' = t
    /\ attached' = attached \cup {t}
    /\ tstate' = [tstate EXCEPT ![t].toolCallHandler = TRUE,
                                ![t].resourceReadHandler = TRUE]
    /\ UNCHANGED <<serverVars, busEvents, transportVars, busVars, life, outbox, sims,
                   inboundVars, outerVars>>

\* setTransport that stores the transport and wires nothing.
SetTransport_NoWire(t) ==
    /\ transport' = t
    /\ lastAttached' = t
    /\ attached' = attached \cup {t}
    /\ UNCHANGED <<serverVars, busEvents, transportVars, busVars, tstate, life, outbox,
                   sims, inboundVars, outerVars>>

\* MCPServer.setTransport(t): stores t and sets both inbound handlers of t
\* to closures over this server's callTool and readResource.
SetTransport(t) ==
    /\ transport' = t
    /\ lastAttached' = t
    /\ attached' = attached \cup {t}
    /\ tstate' = [tstate EXCEPT ![t].toolCallHandler = TRUE,
                                ![t].resourceReadHandler = TRUE]
    /\ UNCHANGED <<serverVars, busEvents, transportVars, busVars, life, outbox, sims,
                   inboundVars, outerVars>>

\* One start() or stop() call: the transport it found attached, the promise
\* of that transport's connect() or disconnect(), its own promise, and the
\* state of the socket its connect() created ("none" when it created none).
LifeCall(op, t, inner, st, sock) ==
    [op |-> op, t |-> t, inner |-> inner, st |-> st, sock |-> sock]

\* transport.connect() as start() calls it: the transport after the call,
\* the promise it returns and the socket it creates.  EmbeddedTransport sets
\* the connected flag at once and its promise is resolved;
\* WebSocketTransport returns at once when it is already connected, and
\* otherwise creates a socket (socket is the call that created the one the
\* transport references) and leaves the promise pending.
ConnectOf(t, i) ==
    IF t \in RemoteIds
    THEN IF tstate[t].connected
         THEN [ts |-> tstate[t], inner |-> "resolved", sock |-> "none"]
         ELSE [ts |-> [tstate[t] EXCEPT !.socket = i], inner |-> "pending",
               sock |-> "connecting"]
    ELSE [ts |-> [tstate[t] EXCEPT !.connected = TRUE], inner |-> "resolved",
          sock |-> "none"]

\* start() publishing the connected event before it awaits connect().
Start_EmitEarly ==
    /\ Published("mcp:notification") + Len(life) < MaxOps
    /\ IF transport = NoVal
       THEN /\ life' = Append(life, LifeCall("start", NoVal, NoVal, "rejected", "none"))
            /\ UNCHANGED <<tstate, busEvents>>
       ELSE LET c == ConnectOf(transport, Len(life) + 1)
            IN  /\ tstate' = [tstate EXCEPT ![transport] = c.ts]
                /\ life' = Append(life, LifeCall("start", transport, c.inner, "awaiting",
                                                 c.sock))
                /\ busEvents' = BusEmit(busEvents, "mcp:connected", NoData)
    /\ UNCHANGED <<serverVars, transportVars, busVars, transport, lastAttached, attached,
                   outbox, sims, inboundVars, outerVars>>

\* start() up to its await: throws without a transport, else calls connect()
\* on the attached transport and waits for its promise.
Start ==
    /\ Published("mcp:notification") + Len(life) < MaxOps
    /\ IF transport = NoVal
       THEN /\ life' = Append(life, LifeCall("start", NoVal, NoVal, "rejected", "none"))
            /\ UNCHANGED tstate
       ELSE LET c == ConnectOf(transport, Len(life) + 1)
            IN  /\ tstate' = [tstate EXCEPT ![transport] = c.ts]
                /\ life' = Append(life, LifeCall("start", transport, c.inner, "awaiting",
                                                 c.sock))
    /\ UNCHANGED <<serverVars, busEvents, transportVars, busVars, transport,
                   lastAttached, attached, outbox, sims, inboundVars, outerVars>>

\* A start() or stop() whose awaited promise is resolved and whose
\* continuation has not run yet.  Continuations run in the order in which
\* they became ready, and all of them have run before the next socket event.
Ready(i) == life[i].st = "awaiting" /\ life[i].inner = "resolved"

\* An event of the socket a WebSocketTransport connect() created, also of a
\* socket the transport no longer references.
\*   "open": onopen sets the connected flag and resolves the promise, and
\*     the start() waiting for it resumes before anything else runs: it
\*     publishes the connected event and resolves.
\*   "error": the socket fails, onerror and then onclose run.  onerror
\*     rejects the promise while the transport is not connected, and start()
\*     rejects with it; while the transport is connected (through another
\*     socket) the promise is left pending for good.
\*   "close": the peer closes an open socket, or the close that disconnect()
\*     asked for completes; only onclose runs.
\* onclose clears the connected flag when it is set and calls reconnect(),
\* which gives up at once (maxReconnectAttempts = 0); it leaves the
\* transport's socket reference as it is.
SocketEvent(i, ev) ==
    /\ i \in DOMAIN life
    /\ life[i].op = "start"
    /\ \A j \in DOMAIN life : ~Ready(j)
    /\ CASE ev = "open" ->
              /\ life[i].sock = "connecting"
              /\ tstate' = [tstate EXCEPT ![life[i].t].connected = TRUE]
              /\ life' = [life EXCEPT ![i].inner = "resolved", ![i].st = "resolved",
                                      ![i].sock = "open"]
              /\ busEvents' = BusEmit(busEvents, "mcp:connected", NoData)
         [] ev = "error" ->
              /\ life[i].sock \in {"connecting", "open", "closing"}
              /\ life' = IF life[i].inner = "pending" /\ ~tstate[life[i].t].connected
                         THEN [life EXCEPT ![i].inner = "rejected", ![i].st = "rejected",
                                           ![i].sock = "closed"]
                         ELSE [life EXCEPT ![i].sock = "closed"]
              /\ tstate' = [tstate EXCEPT ![life[i].t].connected = FALSE]
              /\ UNCHANGED busEvents
         [] ev = "close" ->
              /\ life[i].sock \in {"open", "closing"}
              /\ life[i].inner = "resolved"
              /\ life' = [life EXCEPT ![i].sock = "closed"]
              /\ tstate' = [tstate EXCEPT ![life[i].t].connected = FALSE]
              /\ UNCHANGED busEvents
    /\ UNCHANGED <<serverVars, transportVars, busVars, transport, lastAttached,
                   attached, outbox, sims, inboundVars, outerVars>>

\* start() after its await on a connect() promise that was resolved when
\* start() reached the await: publishes the connected event and resolves.
StartResumes(i) ==
    /\ i \in DOMAIN life
    /\ life[i].op = "start" /\ Ready(i)
    /\ \A j \in 1..(i - 1) : ~Ready(j)
    /\ life' = [life EXCEPT ![i].st = "resolved"]
    /\ busEvents' = BusEmit(busEvents, "mcp:connected", NoData)
    /\ UNCHANGED <<serverVars, transportVars, busVars, transport, lastAttached, attached,
                   tstate, outbox, sims, inboundVars, outerVars>>

\* stop() up to its await: disconnect() on the attached transport, which
\* clears the connected flag at once; a WebSocketTransport also closes and
\* forgets the socket it references, so a connect() still waiting for that
\* socket can no longer resolve, and the socket's events follow later.  Without a transport stop() publishes the
\* disconnected event straight away.
Stop ==
    /\ Published("mcp:notification") + Len(life) < MaxOps
    /\ IF transport = NoVal
       THEN /\ life' = Append(life, LifeCall("stop", NoVal, NoVal, "resolved", "none"))
            /\ busEvents' = BusEmit(busEvents, "mcp:disconnected", NoData)
            /\ UNCHANGED tstate
       ELSE LET s == IF transport \in RemoteIds THEN tstate[transport].socket ELSE 0
                closed == IF s # 0 /\ life[s].sock \in {"connecting", "open"}
                          THEN [life EXCEPT ![s].sock = "closing"] ELSE life
            IN  /\ life' = Append(closed,
                                  LifeCall("stop", transport, "resolved", "awaiting", "none"))
                /\ tstate' = [tstate EXCEPT ![transport] =
                                 IF transport \in RemoteIds
                                 THEN [@ EXCEPT !.connected = FALSE, !.socket = 0]
                                 ELSE [@ EXCEPT !.connected = FALSE]]
                /\ UNCHANGED busEvents
    /\ UNCHANGED <<serverVars, transportVars, busVars, transport, lastAttached, attached, outbox,
                   sims, inboundVars, outerVars>>

\* stop() after its await.
StopResumes(i) ==
    /\ i \in DOMAIN life
    /\ life[i].op = "stop" /\ Ready(i)
    /\ \A j \in 1..(i - 1) : ~Ready(j)
    /\ life' = [life EXCEPT ![i].st = "resolved"]
    /\ busEvents' = BusEmit(busEvents, "mcp:disconnected", NoData)
    /\ UNCHANGED <<serverVars, transportVars, busVars, transport, lastAttached, attached, tstate,
                   outbox, sims, inboundVars, outerVars>>

NextLifecycle ==
    \/ \E t \in TransportIds \cup RemoteIds : SetTransport(t)
    \/ \E n \in Notifications : ServerEmit(n)
    \/ Start
    \/ \E i \in 1..MaxOps, ev \in {"open", "error", "close"} : SocketEvent(i, ev)
    \/ \E i \in 1..MaxOps : StartResumes(i)
    \/ Stop
    \/ \E i \in 1..MaxOps : StopResumes(i)

SpecLifecycle == InitIdle /\ [][NextLifecycle]_vars

(***************************************************************************)
(* EmbeddedTransport: simulated inbound calls                              *)
(***************************************************************************)
\* One simulateToolCall/simulateResourceRead call: the transport it was made
\* on, whether setTransport had been given that transport before, the
\* promise it returned and, when it reached callTool, the invocation made.
SimCall(t, op, promise, call) ==
    [t |-> t, op |-> op, wired |-> t \in attached, promise |-> promise, call |-> call]

\* EmbeddedTransport.simulateToolCall(tool, params): an async function that
\* throws when toolCallHandler is unset, else returns the handler's promise;
\* the handler set by setTransport is the server's callTool.
SimulateToolCall(t, name, params) ==
    /\ Len(sims) < MaxSims
    /\ IF ~tstate[t].toolCallHandler
       THEN /\ sims' = Append(sims,
                  SimCall(t, "tool", "rejected: No tool handler registered", 0))
            /\ UNCHANGED <<calls, busEvents, doneOrder>>
       ELSE LET r == CallToolStart(name, params)
            IN  /\ calls' = Append(calls, r.call)
                /\ busEvents' = r.log
                /\ doneOrder' = IF r.call.st = "awaiting" THEN doneOrder
                                ELSE Append(doneOrder, Len(calls) + 1)
                /\ sims' = Append(sims, SimCall(t, "tool", "callTool's", Len(calls) + 1))
    /\ UNCHANGED <<tools, regs, registered, resVars, transportVars, busVars, transport,
                   lastAttached, attached, tstate, life, outbox, inboundVars, outerVars>>

\* EmbeddedTransport.simulateResourceRead(uri): throws when
\* resourceReadHandler is unset, else returns the promise of the server's
\* readResource.
SimulateResourceRead(t, uri) ==
    /\ Len(sims) < MaxSims
    /\ IF ~tstate[t].resourceReadHandler
       THEN /\ sims' = Append(sims,
                  SimCall(t, "resource", "rejected: No resource handler registered", 0))
            /\ UNCHANGED <<lastRead, busEvents>>
       ELSE LET r == ReadResourceResult(uri)
            IN  /\ lastRead' = r
                /\ busEvents' = ReadResourceEmits(uri)
                /\ sims' = Append(sims, SimCall(t, "resource", r.promise, 0))
    /\ UNCHANGED <<tools, calls, regs, doneOrder, registered, resourceHandlers, resRegs,
                   transportVars, busVars, transport, lastAttached, attached,
                   tstate, life, outbox, inboundVars, outerVars>>

NextEmbedded ==
    \/ \E t \in TransportIds : SetTransport(t)
    \/ \E n \in ToolNames : RegisterTool(n, [handler |-> "ok"])
    \/ \E t \in TransportIds, n \in ToolNames, p \in ParamValues : SimulateToolCall(t, n, p)
    \/ \E t \in TransportIds, u \in Uris : SimulateResourceRead(t, u)
    \/ \E i \in 1..MaxSims : HandlerSettles(i)

SpecEmbedded == InitIdle /\ [][NextEmbedded]_vars

(***************************************************************************)
(* The state sink and the built-in tools                                   *)
(***************************************************************************)
\* The theme ids and tab ids the tools are called with.
SinkIds == {"a", "b"}

\* openTab(tab): a tab of the same id is dropped, the tab is appended and
\* becomes the active one.
OpenTab(st, tab) ==
    [st |-> [st EXCEPT !.tabs = [items |-> Append(SelectSeq(@.items, LAMBDA t : t # tab),
                                                  tab),
                                 activeId |-> tab]],
     event |-> "shell:tab:opened"]

\* closeTab(id)
CloseTab(st, id) ==
    LET remaining == SelectSeq(st.tabs.items, LAMBDA t : t # id)
        newActiveId == IF st.tabs.activeId = id
                       THEN (IF remaining # <<>> THEN remaining[1] ELSE "null")
                       ELSE st.tabs.activeId
    IN  [st |-> [st EXCEPT !.tabs = [items |-> remaining, activeId |-> newActiveId]],
         event |-> "shell:tab:closed"]

\* activateTab(id)
ActivateTab(st, id) ==
    [st |-> [st EXCEPT !.tabs.activeId = id], event |-> "shell:tab:activated"]

\* registerTheme(theme)
RegisterTheme(st, id) ==
    [st |-> [st EXCEPT !.themes = @ \cup {id}], event |-> "ui:theme:changed"]

\* unregisterTheme(id): removes the theme and leaves the selected theme id
\* as it is; emits nothing.
UnregisterTheme(st, id) ==
    [st |-> [st EXCEPT !.themes = @ \ {id}], event |-> NoVal]

\* setTheme(themeId): warns and returns when the theme is not registered.
SetTheme(st, themeId) ==
    IF themeId \notin st.themes
    THEN [st |-> st, event |-> NoVal]
    ELSE [st |-> [st EXCEPT !.theme = themeId], event |-> "ui:theme:changed"]

\* The handler of the built-in tool name run with an id: what it does to
\* the sink, the event the sink emits, and the result it returns.
CoreTool(name, id) ==
    LET r == CASE name = "ui.registerTheme" ->
                    [op |-> RegisterTheme(store, id), success |-> TRUE]
               [] name = "ui.setTheme" ->
                    IF id \notin store.themes
                    THEN [op |-> [st |-> store, event |-> NoVal], success |-> FALSE]
                    ELSE [op |-> SetTheme(store, id), success |-> TRUE]
               [] name = "tabs.open" -> [op |-> OpenTab(store, id), success |-> TRUE]
               [] name = "tabs.close" -> [op |-> CloseTab(store, id), success |-> TRUE]
               [] name = "tabs.activate" ->
                    [op |-> ActivateTab(store, id), success |-> TRUE]
    IN  /\ store' = r.op.st
        /\ lastTool' = [name |-> name, id |-> id, success |-> r.success, threw |-> FALSE,
                        event |-> r.op.event, before |-> store]
        /\ UNCHANGED <<serverVars, busEvents, transportVars, busVars, wiringVars,
                       inboundVars, notes, notificationListeners, registrations,
                       released, lastNote>>

\* A store action called directly, with no built-in tool in front of it:
\* unregisterTheme(id), or reset(), which puts the initial state back.
StoreCall(name, id) ==
    LET op == IF name = "reset" THEN [st |-> initialState, event |-> NoVal]
              ELSE UnregisterTheme(store, id)
    IN  /\ store' = op.st
        /\ lastTool' = [name |-> name, id |-> id, success |-> TRUE, threw |-> FALSE,
                        event |-> op.event, before |-> store]
        /\ UNCHANGED <<serverVars, busEvents, transportVars, busVars, wiringVars,
                       inboundVars, notes, notificationListeners, registrations,
                       released, lastNote>>

NextSink ==
    \/ \E name \in {"ui.registerTheme", "ui.setTheme", "tabs.open", "tabs.close",
                     "tabs.activate"}, id \in SinkIds : CoreTool(name, id)
    \/ \E id \in SinkIds : StoreCall("unregisterTheme", id)
    \/ StoreCall("reset", NoVal)

SpecSink == InitIdle /\ [][NextSink]_vars

(***************************************************************************)
(* EmbeddedTransport: notification listeners                               *)
(***************************************************************************)
\* The listener functions handed to onNotification.
ListenerFns == {"f", "g"}

\* onNotification(listener): the listener is pushed, and the function that
\* is returned holds the listener it was called with.
OnNotification(listener) ==
    /\ Len(registrations) < MaxListeners
    /\ notificationListeners' =
           Append(notificationListeners,
                  [listener |-> listener, reg |-> Len(registrations) + 1])
    /\ registrations' = Append(registrations, listener)
    /\ UNCHANGED <<released, lastNote>>
    /\ UNCHANGED <<serverVars, busEvents, transportVars, busVars, wiringVars, inboundVars,
                   notes, store, lastTool>>

\* The function returned by the reg-th onNotification call, called:
\* this.notificationListeners.filter((l) => l !== listener)
RemoveListener(reg) ==
    /\ reg \in DOMAIN registrations
    /\ notificationListeners' =
           SelectSeq(notificationListeners, LAMBDA l : l.listener # registrations[reg])
    /\ released' = released \cup {reg}
    /\ UNCHANGED <<registrations, lastNote>>
    /\ UNCHANGED <<serverVars, busEvents, transportVars, busVars, wiringVars, inboundVars,
                   notes, store, lastTool>>

\* EmbeddedTransport.sendNotification(n): every listener of the list is
\* called with n, first to last.
EmbeddedSendNotification(n) ==
    /\ lastNote' = [n |-> n, before |-> notificationListeners,
                    calls |-> [k \in DOMAIN notificationListeners |->
                                  notificationListeners[k].reg]]
    /\ UNCHANGED <<notificationListeners, registrations, released>>
    /\ UNCHANGED <<serverVars, busEvents, transportVars, busVars, wiringVars, inboundVars,
                   notes, store, lastTool>>

\* EmbeddedTransport.disconnect(): the list is emptied, so every
\* registration made so far is gone.
EmbeddedDisconnect ==
    /\ notificationListeners' = <<>>
    /\ released' = DOMAIN registrations
    /\ UNCHANGED <<registrations, lastNote>>
    /\ UNCHANGED <<serverVars, busEvents, transportVars, busVars, wiringVars, inboundVars,
                   notes, store, lastTool>>

NextListeners ==
    \/ \E f \in ListenerFns : OnNotification(f)
    \/ \E r \in 1..MaxListeners : RemoveListener(r)
    \/ \E n \in ParamValues : EmbeddedSendNotification(n)
    \/ EmbeddedDisconnect

SpecListeners == InitIdle /\ [][NextListeners]_vars

(***************************************************************************)
(* Properties of MCPServer.callTool                                        *)
(***************************************************************************)
IsErrorResult(r) == r.success = FALSE /\ r.error # NoVal

\* What invocation c must resolve to, from its own name, params and handler.
OwnResult(c) ==
    IF c.handler \in {"ok", "fail"}
    THEN HandlerReturn(c.handler, c.name, c.params)
    ELSE IF c.handler = NoVal
    THEN ToolResult(FALSE, NoData,
            (IF c.found THEN "Tool has no handler: " ELSE "Tool not found: ") \o c.name)
    ELSE ToolResult(FALSE, NoData, ErrorMessage(c.handler, c.name))

\* C1: callTool never rejects or throws.  Its promise resolves to a result
\* that has success=false and an error string when the name is unregistered,
\* when the tool has no handler, and when the handler throws or rejects, and
\* that is the handler's own return value otherwise.
C1_CallToolNeverRejects ==
    \A i \in DOMAIN calls :
        LET c == calls[i]
        IN  /\ c.st \in {"awaiting", "resolved"}
            /\ c.st = "resolved" =>
                   IF c.handler \in {"ok", "fail"}
                   THEN c.result = HandlerReturn(c.handler, c.name, c.params)
                   ELSE IsErrorResult(c.result)

\* C2: with several callTool invocations in flight, a handler that throws
\* affects only its own invocation: the step that settles one invocation
\* leaves every other invocation as it was, and every invocation resolves
\* with the result of its own handler applied to its own arguments.
C2_SiblingIsolation ==
    [][ /\ \A i \in DOMAIN calls : \A j \in DOMAIN calls :
              (i # j /\ calls'[i] # calls[i]) => calls'[j] = calls[j]
        /\ \A i \in DOMAIN calls' :
              calls'[i].st # "awaiting" =>
                  calls'[i].st = "resolved" /\ calls'[i].result = OwnResult(calls'[i])
      ]_vars

(***************************************************************************)
(* Transports: connection lifecycle shared by HttpSseTransport and         *)
(* WebSocketTransport                                                      *)
(***************************************************************************)
Kinds == {"sse", "ws"}

\* An EventSource / WebSocket object with the transport's handlers attached,
\* and the connect() promise whose resolve/reject those handlers close over.
NewSock == [state |-> "connecting", promise |-> "pending"]

SetState(ss, s, st) == [ss EXCEPT ![s].state = st]
\* resolve()/reject() of an already settled promise does nothing.
Settle(ss, s, outcome) ==
    IF ss[s].promise = "pending" THEN [ss EXCEPT ![s].promise = outcome] ELSE ss

\* reconnect() with the attempt bound left out.
Reconnect_Unbounded ==
    /\ reconnectAttempts' = reconnectAttempts + 1
    /\ timers' = timers + 1
    /\ sinceOpen' = sinceOpen + 1

\* reconnect(): give up at the bound, else count the attempt and arm a timer.
Reconnect ==
    IF reconnectAttempts >= maxReconnectAttempts
    THEN UNCHANGED <<reconnectAttempts, timers, sinceOpen>>
    ELSE /\ reconnectAttempts' = reconnectAttempts + 1
         /\ timers' = timers + 1
         /\ sinceOpen' = sinceOpen + 1

\* The body of connect(): nothing when connected, else a new stream/socket
\* that becomes the current one.
ConnectBody ==
    IF connected
    THEN UNCHANGED <<socks, cur>>
    ELSE /\ socks' = Append(socks, NewSock)
         /\ cur' = Len(socks) + 1

\* connect() called by the application; at most limit streams/sockets are
\* ever created.
Connect(limit) ==
    /\ connected \/ Len(socks) < limit
    /\ ConnectBody
    /\ UNCHANGED <<kind, maxReconnectAttempts, connected, reconnectAttempts,
                   timers, sinceOpen, retrying>>
    /\ UNCHANGED <<serverVars, busEvents, reqVars, busVars, linkVars>>

\* The setTimeout callback of reconnect(): connect().catch(log).
ReconnectTimerFires ==
    /\ timers > 0
    /\ connected \/ Len(socks) < MaxSockets
    /\ timers' = timers - 1
    /\ ConnectBody
    /\ UNCHANGED <<kind, maxReconnectAttempts, connected, reconnectAttempts,
                   sinceOpen, retrying>>
    /\ UNCHANGED <<serverVars, busEvents, reqVars, busVars, linkVars>>

\* onopen of stream/socket s (an EventSource that lost its connection
\* re-opens by itself and fires onopen again).
SockOpens(s) ==
    /\ s \in DOMAIN socks
    /\ socks[s].state = "connecting"
    /\ connected' = TRUE
    /\ reconnectAttempts' = 0
    /\ socks' = Settle(SetState(socks, s, "open"), s, "resolved")
    /\ sinceOpen' = 0
    /\ retrying' = FALSE
    /\ UNCHANGED <<kind, maxReconnectAttempts, cur, timers>>
    /\ UNCHANGED <<serverVars, busEvents, reqVars, busVars, linkVars>>

(***************************************************************************)
(* HttpSseTransport                                                        *)
(***************************************************************************)
\* onerror of EventSource s.  A fatal error closes the stream; otherwise the
\* browser keeps the stream and retries it by itself.
SseError(s, fatal) ==
    /\ kind = "sse"
    /\ s \in DOMAIN socks
    /\ socks[s].state \in {"connecting", "open"}
    /\ connected => timers < MaxTimers
    /\ LET st == IF fatal THEN "closed" ELSE "connecting"
       IN  IF connected
           THEN /\ connected' = FALSE
                /\ Reconnect
                /\ retrying' = TRUE
                /\ socks' = SetState(socks, s, st)
           ELSE /\ socks' = Settle(SetState(socks, s, st), s, "rejected")
                /\ UNCHANGED <<connected, reconnectAttempts, timers, sinceOpen, retrying>>
    /\ UNCHANGED <<kind, maxReconnectAttempts, cur>>
    /\ UNCHANGED <<serverVars, busEvents, reqVars, busVars, linkVars>>

\* HttpSseTransport.disconnect(): EventSource.close() is immediate and
\* fires no event.
SseDisconnect ==
    /\ kind = "sse"
    /\ socks' = IF cur # 0 THEN SetState(socks, cur, "closed") ELSE socks
    /\ cur' = 0
    /\ connected' = FALSE
    /\ retrying' = FALSE
    /\ UNCHANGED <<kind, maxReconnectAttempts, reconnectAttempts, timers, sinceOpen>>
    /\ UNCHANGED <<serverVars, busEvents, reqVars, busVars, linkVars>>

(***************************************************************************)
(* WebSocketTransport                                                      *)
(***************************************************************************)
Results == {"r1", "r2"}
Errors == {NoVal, "e1"}
ReqTypes == {"tool_call", "resource_read"}

Pending == [st |-> "pending", val |-> NoVal]
NoEnvelope == [id |-> 0, result |-> NoVal, error |-> NoVal]
\* A response envelope {type: 'response', id, result, error}.
Responses ==
    [id : 1..MaxRequests, result : Results, error : {NoVal}]
        \cup [id : 1..MaxRequests, result : {NoVal}, error : Errors \ {NoVal}]

\* The socket has ended: an error event (when the connection failed) and
\* then the close event.  onerror rejects the connect() promise when not
\* connected; onclose starts the reconnect sequence when connected.
WsSockEnds(s, withError) ==
    /\ kind = "ws"
    /\ s \in DOMAIN socks
    /\ socks[s].state \in {"connecting", "open", "closing"}
    /\ socks[s].promise = "pending" => withError
    /\ connected => timers < MaxTimers
    /\ socks' = IF withError /\ ~connected
                THEN Settle(SetState(socks, s, "closed"), s, "rejected")
                ELSE SetState(socks, s, "closed")
    /\ IF connected
       THEN /\ connected' = FALSE
            /\ Reconnect
            /\ retrying' = TRUE
       ELSE UNCHANGED <<connected, reconnectAttempts, timers, sinceOpen, retrying>>
    /\ UNCHANGED <<kind, maxReconnectAttempts, cur>>
    /\ UNCHANGED <<serverVars, busEvents, reqVars, busVars, linkVars>>

\* disconnect() that also starts the correlation ids again.
WsDisconnect_ResetCounter ==
    /\ kind = "ws"
    /\ socks' = IF cur # 0 /\ socks[cur].state \in {"connecting", "open"}
                THEN SetState(socks, cur, "closing") ELSE socks
    /\ cur' = 0
    /\ connected' = FALSE
    /\ pendingRequests' = {}
    /\ retrying' = FALSE
    /\ requestCounter' = 0
    /\ UNCHANGED <<kind, maxReconnectAttempts, reconnectAttempts, timers, sinceOpen>>
    /\ UNCHANGED <<serverVars, busEvents, reqs, lastSent, busVars, linkVars>>

\* WebSocketTransport.disconnect(): close() starts the closing handshake,
\* the close event comes later.
WsDisconnect ==
    /\ kind = "ws"
    /\ socks' = IF cur # 0 /\ socks[cur].state \in {"connecting", "open"}
                THEN SetState(socks, cur, "closing") ELSE socks
    /\ cur' = 0
    /\ connected' = FALSE
    /\ pendingRequests' = {}
    /\ retrying' = FALSE
    /\ UNCHANGED <<kind, maxReconnectAttempts, reconnectAttempts, timers, sinceOpen>>
    /\ UNCHANGED <<serverVars, busEvents, requestCounter, reqs, lastSent, busVars, linkVars>>

\* JSON.stringify(message) returns; it throws a TypeError for a value that
\* refers to itself ("cyclic").
Serialisable(data) == data # "cyclic"

\* send(message): drops the message unless the current socket is open.
Send(type, id) ==
    IF cur = 0 \/ socks[cur].state # "open"
    THEN lastSent
    ELSE [type |-> type, id |-> id]

\* request(type, data): callTool and readResource. The executor stores the
\* continuation, calls send() and then arms the timer. With the socket open
\* send() writes the envelope with JSON.stringify, which throws for data it
\* cannot write: the promise is rejected at once, no frame is sent, no timer
\* is armed and the stored continuation stays in pendingRequests.
WsRequest(type, data) ==
    /\ kind = "ws"
    /\ requestCounter < MaxRequests
    /\ LET id == requestCounter + 1
           open == cur # 0 /\ socks[cur].state = "open"
           thrown == open /\ ~Serialisable(data)
       IN  /\ requestCounter' = id
           /\ pendingRequests' = pendingRequests \cup {id}
           /\ lastSent' = IF thrown THEN lastSent ELSE Send(type, id)
           /\ reqs' = Append(reqs,
                  [id |-> id,
                   promise |-> IF thrown
                               THEN [st |-> "rejected",
                                     val |-> "Converting circular structure to JSON"]
                               ELSE Pending,
                   timer |-> IF thrown THEN "no timer" ELSE "armed",
                   settles |-> 0, answered |-> FALSE, settledBy |-> NoEnvelope])
    /\ UNCHANGED <<serverVars, busEvents, connVars, busVars, linkVars>>

\* The continuation of request id is invoked with an outcome.
Invoke(rs, id, st, val, env) ==
    [rs EXCEPT ![id].settles = @ + 1,
               ![id].settledBy = env,
               ![id].promise = IF @.st = "pending" THEN [st |-> st, val |-> val] ELSE @]

\* The setTimeout callback of request().
TimeoutCallback(id) ==
    IF id \in pendingRequests
    THEN /\ pendingRequests' = pendingRequests \ {id}
         /\ reqs' = Invoke([reqs EXCEPT ![id].timer = "fired"], id,
                           "rejected", "Request timeout", NoEnvelope)
    ELSE /\ reqs' = [reqs EXCEPT ![id].timer = "fired"]
         /\ UNCHANGED pendingRequests

WsTimeout(id) ==
    /\ kind = "ws"
    /\ id \in DOMAIN reqs
    /\ reqs[id].timer = "armed"
    /\ TimeoutCallback(id)
    /\ UNCHANGED <<serverVars, busEvents, connVars, requestCounter, lastSent, busVars, linkVars>>

\* pendingRequests.get taking whichever entry is oldest.
Lookup_Oldest(id) ==
    IF pendingRequests = {} THEN 0
    ELSE CHOOSE k \in pendingRequests : \A j \in pendingRequests : k <= j

\* pendingRequests.get(message.id): the key found, 0 when there is none.
Lookup(id) == IF id \in pendingRequests THEN id ELSE 0

\* if (message.error): undefined and '' are falsy.
Truthy(e) == e \notin {NoVal, ""}

\* handleResponse(message)
HandleResponse(m) ==
    LET k == Lookup(m.id)
        rs == IF m.id \in DOMAIN reqs THEN [reqs EXCEPT ![m.id].answered = TRUE] ELSE reqs
    IN  IF k = 0
        THEN /\ reqs' = rs
             /\ UNCHANGED pendingRequests
        ELSE /\ pendingRequests' = pendingRequests \ {m.id}
             /\ reqs' = IF Truthy(m.error)
                        THEN Invoke(rs, k, "rejected", m.error, m)
                        ELSE Invoke(rs, k, "resolved", m.result, m)

\* onmessage of socket s with a response envelope: handleMessage.
WsMessage(s, m) ==
    /\ kind = "ws"
    /\ s \in DOMAIN socks
    /\ socks[s].state = "open"
    /\ HandleResponse(m)
    /\ UNCHANGED <<serverVars, busEvents, connVars, requestCounter, lastSent, busVars, linkVars>>

\* An HTTP+SSE or WebSocket transport with any reconnect budget; no
\* requests are made.
InitConn ==
    /\ ServerIdle
    /\ TransportIdle
    /\ BusIdle
    /\ LinkIdle
    /\ kind \in Kinds
    /\ maxReconnectAttempts \in 0..MaxAttemptsOpt

NextConn ==
    \/ Connect(MaxSockets)
    \/ ReconnectTimerFires
    \/ \E s \in 1..MaxSockets : SockOpens(s)
    \/ \E s \in 1..MaxSockets, fatal \in BOOLEAN : SseError(s, fatal)
    \/ SseDisconnect
    \/ \E s \in 1..MaxSockets, e \in BOOLEAN : WsSockEnds(s, e)
    \/ WsDisconnect

SpecConn == InitConn /\ [][NextConn]_vars

\* The POST of HttpSseTransport.sendNotification settling with a failure,
\* where the failure makes the transport post the notification again.
PostSettles_Retry(i, ok) ==
    /\ i \in DOMAIN notes
    /\ notes[i].wire = "posting"
    /\ notes' = [notes EXCEPT ![i].wire = IF ok THEN "posted" ELSE "posting",
                               ![i].posts = IF ok THEN @ ELSE @ + 1]
    /\ UNCHANGED <<serverVars, busEvents, transportVars, busVars, wiringVars, inboundVars,
                   notificationListeners, registrations, released, lastNote, store,
                   lastTool>>

\* The POST of HttpSseTransport.sendNotification settles: a rejection goes
\* to .catch(), which logs it.
PostSettles(i, ok) ==
    /\ i \in DOMAIN notes
    /\ notes[i].wire = "posting"
    /\ notes' = [notes EXCEPT ![i].wire = IF ok THEN "posted" ELSE "failed"]
    /\ UNCHANGED <<serverVars, busEvents, transportVars, busVars, wiringVars, inboundVars,
                   notificationListeners, registrations, released, lastNote, store,
                   lastTool>>

\* sendNotification(notification) of the remote transport. HTTP+SSE: the
\* body of the POST is written with JSON.stringify and one fetch() is
\* started, whatever the state of the stream. WebSocket:
\* send({type: 'notification', ...}), which drops the frame unless the
\* current socket is open and writes it with JSON.stringify otherwise. Where
\* JSON.stringify is reached with a notification it cannot write, the
\* TypeError leaves sendNotification and nothing is posted or sent.
SendNotification(n) ==
    /\ Len(notes) < MaxNotes
    /\ IF kind = "sse"
       THEN /\ notes' = Append(notes,
                   IF Serialisable(n)
                   THEN [n |-> n, wire |-> "posting", posts |-> 1, threw |-> FALSE]
                   ELSE [n |-> n, wire |-> "no post", posts |-> 0, threw |-> TRUE])
            /\ UNCHANGED lastSent
       ELSE LET open == cur # 0 /\ socks[cur].state = "open"
                thrown == open /\ ~Serialisable(n)
            IN  /\ notes' = Append(notes,
                       [n |-> n,
                        wire |-> IF open /\ ~thrown THEN "sent" ELSE "dropped",
                        posts |-> IF open /\ ~thrown THEN 1 ELSE 0,
                        threw |-> thrown])
                /\ lastSent' = IF thrown THEN lastSent ELSE Send("notification", 0)
    /\ UNCHANGED <<serverVars, busEvents, connVars, pendingRequests, requestCounter, reqs,
                   busVars, wiringVars, inboundVars, notificationListeners, registrations,
                   released, lastNote, store, lastTool>>

\* A remote transport that connects, loses its connection and reconnects
\* while notifications are sent through it.
NextNotify ==
    \/ NextConn
    \/ \E n \in {"n1", "cyclic"} : SendNotification(n)
    \/ \E i \in 1..MaxNotes, ok \in BOOLEAN : PostSettles(i, ok)

SpecNotify == InitConn /\ [][NextNotify]_vars

\* A WebSocket transport making requests, connected and disconnected by the
\* application (maxReconnectAttempts: 0).

NextRequests ==
    \/ Connect(MaxReqSockets)
    \/ \E s \in 1..MaxSockets : SockOpens(s)
    \/ \E s \in 1..MaxSockets, e \in BOOLEAN : WsSockEnds(s, e)
    \/ WsDisconnect
    \/ \E t \in ReqTypes, data \in {"d1", "cyclic"} : WsRequest(t, data)
    \/ \E i \in 1..MaxRequests : WsTimeout(i)
    \/ \E s \in 1..MaxSockets, m \in Responses : WsMessage(s, m)

SpecRequests == InitIdle /\ [][NextRequests]_vars

(***************************************************************************)
(* Transports: inbound envelopes and events                                *)
(***************************************************************************)
InboundIds == {1, 2}
\* How an inbound handler's promise settles: it resolves with a value JSON
\* can write ("r1") or one it cannot ("cyclic", an object that refers to
\* itself), or rejects with an Error ("h") or with a value that has no string
\* conversion ("bare", such as Object.create(null)).
InboundOutcomes == {"r1", "cyclic", "h", "bare"}
IsResult(o) == o \in {"r1", "cyclic"}

\* String(error)
StringOfError(error) ==
    IF error = "bare" THEN Throws
    ELSE IF error = "cyclic" THEN "TypeError: Converting circular structure to JSON"
    ELSE "Error: " \o error

\* What arrives on a WebSocket: a response, an inbound call, a notification,
\* an envelope of a type the switch does not know, or text that is not JSON.
Envelope(type, id, result, error) ==
    [type |-> type, id |-> id, result |-> result, error |-> error]
CallEnvelopes == {Envelope(t, i, NoVal, NoVal) : t \in ReqTypes, i \in InboundIds}
OtherEnvelopes ==
    {Envelope("response", i, "r1", NoVal) : i \in 1..MaxRequests}
        \cup {Envelope("response", i, NoVal, "e1") : i \in 1..MaxRequests}
        \cup {Envelope(t, 0, NoVal, NoVal) : t \in {"notification", "bogus", "unparseable"}}

\* handleMessage treating every unknown type as a tool call.
Branch_Lenient(env) ==
    IF env.type = "unparseable" THEN "catch"
    ELSE IF env.type \in {"response", "resource_read", "notification"}
    THEN env.type
    ELSE "tool_call"

\* handleMessage: JSON.parse in a try/catch, then the switch on message.type.
Branch(env) ==
    IF env.type = "unparseable" THEN "catch"
    ELSE IF env.type \in {"response", "tool_call", "resource_read", "notification"}
    THEN env.type
    ELSE "default"

HandlerSet(type) ==
    IF type = "tool_call" THEN toolCallHandler ELSE resourceReadHandler

NoHandlerError(type) ==
    IF type = "tool_call" THEN "No tool handler registered"
    ELSE "No resource handler registered"

\* send(frame) seen from the wire: the frames that leave, none when the
\* current socket is missing or not open.
Sent(frame) ==
    IF cur = 0 \/ socks[cur].state # "open" THEN <<>> ELSE <<frame>>

\* One received envelope or event: the inbound handler's promise ("none"
\* when no handler was invoked) and what the transport sent back for it.
Received(env, handler, replies) ==
    [env |-> env, handler |-> handler, replies |-> replies]

\* BaseTransport.onToolCall / onResourceRead
OnToolCall ==
    /\ ~toolCallHandler
    /\ toolCallHandler' = TRUE
    /\ UNCHANGED <<serverVars, busEvents, transportVars, busVars, wiringVars, outerVars,
                   resourceReadHandler, inbound>>

OnResourceRead ==
    /\ ~resourceReadHandler
    /\ resourceReadHandler' = TRUE
    /\ UNCHANGED <<serverVars, busEvents, transportVars, busVars, wiringVars, outerVars,
                   toolCallHandler, inbound>>

\* onmessage of socket s with any envelope: handleMessage, and
\* handleToolCall / handleResourceRead up to their await.
WsReceive(s, env) ==
    /\ kind = "ws"
    /\ s \in DOMAIN socks
    /\ socks[s].state = "open"
    /\ Len(inbound) < MaxInbound
    /\ LET b == Branch(env)
       IN  IF b = "response"
           THEN /\ HandleResponse([id |-> env.id, result |-> env.result,
                                   error |-> env.error])
                /\ inbound' = Append(inbound, Received(env, "none", <<>>))
                /\ UNCHANGED lastSent
           ELSE IF b \in ReqTypes
           THEN /\ IF HandlerSet(b)
                   THEN /\ inbound' = Append(inbound, Received(env, "pending", <<>>))
                        /\ UNCHANGED lastSent
                   ELSE /\ inbound' = Append(inbound, Received(env, "none",
                               Sent(Envelope("response", env.id, NoVal, NoHandlerError(b)))))
                        /\ lastSent' = Send("response", env.id)
                /\ UNCHANGED <<pendingRequests, reqs>>
           ELSE /\ inbound' = Append(inbound, Received(env, "none", <<>>))
                /\ UNCHANGED <<pendingRequests, reqs, lastSent>>
    /\ UNCHANGED <<serverVars, busEvents, connVars, requestCounter, busVars, wiringVars, outerVars,
                   toolCallHandler, resourceReadHandler>>

\* handleToolCall / handleResourceRead after the await.  A result goes to
\* send(), which logs and returns when the current socket is not open and
\* otherwise writes JSON.stringify(message); when that throws, the catch
\* block sends the TypeError as the error.  A rejection goes to the catch
\* block, which sends String(error); when the conversion throws, send() is
\* not reached and nothing is sent.
WsInboundSettles(i, o) ==
    /\ kind = "ws"
    /\ i \in DOMAIN inbound
    /\ inbound[i].handler = "pending"
    /\ LET id == inbound[i].env.id
           open == cur # 0 /\ socks[cur].state = "open"
           error == IF IsResult(o) THEN StringOfError("cyclic") ELSE StringOfError(o)
           frames == IF IsResult(o) /\ (~open \/ Serialisable(o))
                     THEN Sent(Envelope("response", id, o, NoVal))
                     ELSE IF error = Throws THEN <<>>
                     ELSE Sent(Envelope("response", id, NoVal, error))
       IN  /\ inbound' = [inbound EXCEPT
                  ![i].handler = IF IsResult(o) THEN "resolved" ELSE "rejected",
                  ![i].replies = frames]
           /\ lastSent' = IF frames = <<>> THEN lastSent ELSE Send("response", id)
    /\ UNCHANGED <<serverVars, busEvents, connVars, pendingRequests, requestCounter, reqs,
                   busVars, wiringVars, outerVars, toolCallHandler, resourceReadHandler>>

\* A tool_call or resource_read event on stream s: the listener returns at
\* once without a handler, else parses the event and invokes the handler.
SseEvent(s, type, id) ==
    /\ kind = "sse"
    /\ s \in DOMAIN socks
    /\ socks[s].state = "open"
    /\ Len(inbound) < MaxInbound
    /\ inbound' = Append(inbound,
           Received(Envelope(type, id, NoVal, NoVal),
                    IF HandlerSet(type) THEN "pending" ELSE "none", <<>>))
    /\ UNCHANGED <<serverVars, busEvents, transportVars, busVars, wiringVars, outerVars,
                   toolCallHandler, resourceReadHandler>>

\* The listener after its await: sendToolResult / sendResourceResult posts
\* JSON.stringify({id, result}); a rejection, and a result JSON cannot write,
\* is caught and logged.
SseInboundSettles(i, o) ==
    /\ kind = "sse"
    /\ i \in DOMAIN inbound
    /\ inbound[i].handler = "pending"
    /\ inbound' = [inbound EXCEPT
           ![i].handler = IF IsResult(o) THEN "resolved" ELSE "rejected",
           ![i].replies = IF IsResult(o) /\ Serialisable(o)
                          THEN <<Envelope(inbound[i].env.type \o "/result",
                                          inbound[i].env.id, o, NoVal)>>
                          ELSE <<>>]
    /\ UNCHANGED <<serverVars, busEvents, transportVars, busVars, wiringVars, outerVars,
                   toolCallHandler, resourceReadHandler>>

\* A transport of either remote kind receiving inbound traffic, connected
\* and disconnected by the application (maxReconnectAttempts: 0).
InitInbound ==
    /\ ServerIdle
    /\ TransportIdle
    /\ BusIdle
    /\ LinkIdle
    /\ kind \in Kinds
    /\ maxReconnectAttempts = 0

NextInbound ==
    \/ Connect(MaxReqSockets)
    \/ \E s \in 1..MaxSockets : SockOpens(s)
    \/ \E s \in 1..MaxSockets, e \in BOOLEAN : WsSockEnds(s, e)
    \/ WsDisconnect
    \/ OnToolCall
    \/ OnResourceRead
    \/ \E s \in 1..MaxSockets, env \in CallEnvelopes : WsReceive(s, env)
    \/ \E i \in 1..MaxInbound, o \in InboundOutcomes : WsInboundSettles(i, o)
    \/ \E s \in 1..MaxSockets, t \in ReqTypes, i \in InboundIds : SseEvent(s, t, i)
    \/ \E i \in 1..MaxInbound, o \in InboundOutcomes : SseInboundSettles(i, o)

SpecInbound == InitInbound /\ [][NextInbound]_vars

\* A WebSocket transport with requests outstanding that receives responses,
\* notifications and envelopes it cannot dispatch.

NextDrop ==
    \/ Connect(MaxReqSockets)
    \/ \E s \in 1..MaxSockets : SockOpens(s)
    \/ WsDisconnect
    \/ \E t \in ReqTypes, data \in {"d1", "cyclic"} : WsRequest(t, data)
    \/ \E s \in 1..MaxSockets, env \in OtherEnvelopes : WsReceive(s, env)

SpecDrop == InitIdle /\ [][NextDrop]_vars

(***************************************************************************)
(* Properties of WebSocketTransport requests                               *)
(***************************************************************************)
Timeout == [st |-> "rejected", val |-> "Request timeout"]

\* C3: every promise returned by callTool/readResource on the WebSocket
\* transport settles: once the 30 s timer of a call has expired the call is
\* settled (by a response before that, or rejected by the timeout), also
\* when disconnect() ran or the channel closed while it was outstanding.
C3_EveryCallSettles ==
    \A i \in DOMAIN reqs :
        reqs[i].timer = "fired" => reqs[i].promise.st # "pending"

\* C4: when the timeout of a call fires and no response for its id has
\* arrived, the call is rejected with a timeout error and its id leaves
\* pendingRequests; every other entry stays, no other call is touched, and
\* the connection state is unchanged.
C4_TimeoutRejectsItsCall ==
    [][ \A i \in DOMAIN reqs :
          (reqs[i].timer = "armed" /\ reqs'[i].timer = "fired" /\ ~reqs[i].answered)
          => /\ reqs'[i].promise = Timeout
             /\ pendingRequests' = pendingRequests \ {i}
             /\ \A j \in DOMAIN reqs : j # i => reqs'[j] = reqs[j]
             /\ connVars' = connVars
      ]_vars

\* What handleResponse settles a call with, given the envelope.
OutcomeOf(m) ==
    IF Truthy(m.error) THEN [st |-> "rejected", val |-> m.error]
    ELSE [st |-> "resolved", val |-> m.result]

C6_SettledOnce ==
    \A i \in DOMAIN reqs :
        LET r == reqs[i]
        IN  /\ r.settles <= 1
            /\ i \in pendingRequests => r.settles = 0 /\ r.promise = Pending
            /\ (r.answered \/ r.timer = "fired") =>
                   r.settles = 1 /\ i \notin pendingRequests

(***************************************************************************)
(* Properties of reconnection                                              *)
(***************************************************************************)
\* C7: the number of automatic reconnect attempts since the last successful
\* open never exceeds maxReconnectAttempts, and once that many have been made
\* no further attempt is scheduled.
C7_ReconnectBounded ==
    [][ /\ sinceOpen' <= maxReconnectAttempts
        /\ sinceOpen >= maxReconnectAttempts => timers' <= timers
      ]_vars

\* The connection was lost with the budget used up: reconnect() gave up.
C7_Witness ==
    /\ retrying
    /\ ~connected
    /\ reconnectAttempts >= maxReconnectAttempts
    /\ sinceOpen = maxReconnectAttempts
    /\ timers = 0

\* C8: after an open connection is lost the transport keeps retrying: while
\* fewer than maxReconnectAttempts attempts have been made and the connection
\* is not open again, an attempt is under way or a further one is scheduled.
C8_KeepsRetrying ==
    (retrying /\ ~connected /\ reconnectAttempts < maxReconnectAttempts)
        => \/ timers > 0
           \/ \E s \in DOMAIN socks : socks[s].state = "connecting"

\* C9: when a transport stops reconnecting because the retry bound has been
\* reached, a lifecycle event is published on the Event Bus.
C9_GiveUpPublished ==
    [][ (connected /\ ~connected' /\ retrying'
            /\ reconnectAttempts >= maxReconnectAttempts)
        => Len(busEvents') > Len(busEvents)
      ]_vars

(***************************************************************************)
(* EventBus                                                                *)
(***************************************************************************)
EventNames == {"e1", "e2"}
\* What a subscribed handler does when it is invoked: return, throw, call
\* emit() of the same event from inside (at most MaxDepth levels deep),
\* return a promise that settles later, call the unsubscribe function of a
\* subscription of the event, or call off() of the event.
SyncHandlers == {"plain", "throws", "reemit"}
AsyncHandlers == {"plain", "throws", "async"}
RemovingHandlers == {"plain", "unsub", "off"}

\* Map.set(key, value)
MapSet(map, key, value) ==
    [k \in DOMAIN map \cup {key} |-> IF k = key THEN value ELSE map[k]]
\* Map.delete(key)
MapDelete(map, key) == [k \in DOMAIN map \ {key} |-> map[k]]

\* The array of event has been replaced in the map (or the key deleted): an
\* emitAsync pass that holds the old array no longer sees later push() calls.
Detach(ps, events) ==
    [k \in DOMAIN ps |->
        IF ps[k].event \in events THEN [ps[k] EXCEPT !.live = FALSE] ELSE ps[k]]

\* subscriptions.get(event).push(sub): the array is changed in place, so a
\* pass that still holds this array holds the new element too.
Push(ps, event, sub) ==
    [k \in DOMAIN ps |->
        IF ps[k].event = event /\ ps[k].live
        THEN [ps[k] EXCEPT !.subs = Append(@, sub)] ELSE ps[k]]

\* An emitAsync pass some handler of which has not settled yet.
HasPending(pass) ==
    /\ pass.promise = "pending"
    /\ \E i \in DOMAIN pass.sts : pass.sts[i] = "pending"

\* The passes of event that overlap: two or more with handlers pending.
Overlapping(ps, event) ==
    LET open == {k \in DOMAIN ps : ps[k].event = event /\ HasPending(ps[k])}
    IN  IF Cardinality(open) >= 2 THEN open ELSE {}

\* The overlapping passes remember the subscriptions on() made during the
\* overlap.
Noted(ps, event, sub) ==
    [k \in DOMAIN ps |->
        IF ~sub.once /\ k \in Overlapping(ps, event)
        THEN [ps[k] EXCEPT !.added = @ \cup {sub}] ELSE ps[k]]

\* subscribe() putting the new subscription in front of the list.
Subscribe_Unshift(event, handler, once) ==
    LET id == subscriptionCounter + 1
        old == IF event \in DOMAIN subscriptions THEN subscriptions[event] ELSE <<>>
        sub == [id |-> id, handler |-> handler, once |-> once]
    IN  /\ subscriptionCounter < MaxSubs
        /\ subscriptionCounter' = id
        /\ subscriptions' = MapSet(subscriptions, event, <<sub>> \o old)
        /\ closures' = Append(closures, event)
        /\ UNCHANGED <<unsubscribed, removed>>
        /\ passes' = Noted(Push(passes, event, sub), event, sub)
        /\ UNCHANGED lastEmit

\* subscribe(event, handler, once): on() and once().
Subscribe(event, handler, once) ==
    LET id == subscriptionCounter + 1
        old == IF event \in DOMAIN subscriptions THEN subscriptions[event] ELSE <<>>
        sub == [id |-> id, handler |-> handler, once |-> once]
    IN  /\ subscriptionCounter < MaxSubs
        /\ subscriptionCounter' = id
        /\ subscriptions' = MapSet(subscriptions, event, Append(old, sub))
        /\ closures' = Append(closures, event)
        /\ UNCHANGED <<unsubscribed, removed>>
        /\ passes' = Noted(Push(passes, event, sub), event, sub)
        /\ UNCHANGED lastEmit

On(event, handler) ==
    /\ Subscribe(event, handler, FALSE)
    /\ UNCHANGED <<serverVars, busEvents, transportVars, linkVars>>

Once(event, handler) ==
    /\ Subscribe(event, handler, TRUE)
    /\ UNCHANGED <<serverVars, busEvents, transportVars, linkVars>>

\* The body of the function returned by subscribe(): the map after the call.
UnsubscribeBody(id, map) ==
    LET event == closures[id]
        NotId(sub) == sub.id # id
    IN  IF event \in DOMAIN map
        THEN MapSet(map, event, SelectSeq(map[event], NotId))
        ELSE map

\* The ids of the subscriptions the map holds under the events.
IdsOf(map, events) ==
    {map[e][k].id : <<e, k>> \in {x \in (DOMAIN map \cap events) \X (1..MaxSubs) :
                                     x[2] \in DOMAIN map[x[1]]}}

\* The function returned by subscribe(), called.
Unsubscribe(id) ==
    /\ id \in DOMAIN closures
    /\ subscriptions' = UnsubscribeBody(id, subscriptions)
    /\ unsubscribed' = unsubscribed \cup {id}
    /\ removed' = removed \cup {id}
    /\ passes' = IF closures[id] \in DOMAIN subscriptions
                 THEN Detach(passes, {closures[id]}) ELSE passes
    /\ UNCHANGED <<subscriptionCounter, closures, lastEmit>>
    /\ UNCHANGED <<serverVars, busEvents, transportVars, linkVars>>

Off(event) ==
    /\ subscriptions' = MapDelete(subscriptions, event)
    /\ removed' = removed \cup IdsOf(subscriptions, {event})
    /\ passes' = Detach(passes, {event})
    /\ UNCHANGED <<subscriptionCounter, closures, unsubscribed, lastEmit>>
    /\ UNCHANGED <<serverVars, busEvents, transportVars, linkVars>>

Clear ==
    /\ subscriptions' = [e \in {} |-> <<>>]
    /\ removed' = removed \cup IdsOf(subscriptions, EventNames)
    /\ passes' = Detach(passes, EventNames)
    /\ UNCHANGED <<subscriptionCounter, closures, unsubscribed, lastEmit>>
    /\ UNCHANGED <<serverVars, busEvents, transportVars, linkVars>>

RECURSIVE EmitLoop(_, _, _, _, _, _, _, _)
RECURSIVE EmitCall(_, _, _, _)

\* The subscription an "unsub" handler holds the unsubscribe function of:
\* the first one that was made for its event.
Oldest(event) ==
    CHOOSE id \in DOMAIN closures :
        /\ closures[id] = event
        /\ \A j \in DOMAIN closures : closures[j] = event => id <= j

\* sub.handler(data) called at nesting depth: the call is recorded in the
\* trace; a re-emitting handler runs a whole emit() before it returns, an
\* "unsub" handler calls an unsubscribe function and an "off" handler calls
\* off(event).
\* st is the bus as the handler finds it: the map, the trace of all calls,
\* and whether the array of the event has been replaced in the map.
HandlerRuns(sub, event, data, st, depth) ==
    LET st1 == [st EXCEPT !.trace = Append(@, <<sub.id, data>>)]
    IN  CASE sub.handler = "throws" -> [st |-> st1, threw |-> TRUE]
          [] sub.handler = "reemit" /\ depth < MaxDepth ->
                LET r == EmitCall(event, data, st1, depth + 1)
                IN  [st |-> r.st, threw |-> r.threw]
          [] sub.handler = "unsub" ->
                LET id == Oldest(event)
                IN  [st |-> [st1 EXCEPT !.map = UnsubscribeBody(id, @),
                                        !.replaced = @ \/ event \in DOMAIN st.map,
                                        !.called = @ \cup {id},
                                        !.removed = @ \cup {id}],
                     threw |-> FALSE]
          [] sub.handler = "off" ->
                [st |-> [st1 EXCEPT !.map = MapDelete(@, event),
                                    !.replaced = TRUE,
                                    !.removed = @ \cup IdsOf(st.map, {event})],
                 threw |-> FALSE]
          [] OTHER -> [st |-> st1, threw |-> FALSE]

\* The loop body of emit() without its try/catch: what the handler throws
\* leaves the loop.
EmitTry_NoCatch(sub, threw, toRemove) ==
    [toRemove |-> IF ~threw /\ sub.once THEN toRemove \cup {sub.id} ELSE toRemove,
     escaped |-> threw]

\* try { sub.handler(data); if (sub.once) toRemove.push(sub.id) }
\* catch (error) { console.error(...) }
EmitTry(sub, threw, toRemove) ==
    [toRemove |-> IF ~threw /\ sub.once THEN toRemove \cup {sub.id} ELSE toRemove,
     escaped |-> FALSE]

\* The for-loop of emit() from position i on.
EmitLoop(subs, i, event, data, toRemove, log, st, depth) ==
    IF i > Len(subs)
    THEN [toRemove |-> toRemove, log |-> log, st |-> st, threw |-> FALSE]
    ELSE LET sub == subs[i]
             r == HandlerRuns(sub, event, data, st, depth)
             log1 == Append(log, <<sub.id, data>>)
             t == EmitTry(sub, r.threw, toRemove)
         IN  IF t.escaped
             THEN [toRemove |-> t.toRemove, log |-> log1, st |-> r.st, threw |-> TRUE]
             ELSE EmitLoop(subs, i + 1, event, data, t.toRemove, log1, r.st, depth)

\* The body of emit(event, data) run on the bus st: the calls of this pass
\* (log), whether it threw, and the bus afterwards. The pruning filters the
\* array the loop ran over and stores the result under the event.
EmitCall(event, data, st, depth) ==
    IF event \notin DOMAIN st.map
    THEN [st |-> st, log |-> <<>>, threw |-> FALSE]
    ELSE LET subs == st.map[event]
             r == EmitLoop(subs, 1, event, data, {}, <<>>, st, depth)
             Kept(sub) == sub.id \notin r.toRemove
         IN  [st |-> IF ~r.threw /\ r.toRemove # {}
                     THEN [r.st EXCEPT !.map = MapSet(@, event, SelectSeq(subs, Kept)),
                                       !.replaced = TRUE]
                     ELSE r.st,
              log |-> r.log,
              threw |-> r.threw]

\* emit(event, data)
Emit(event, data) ==
    /\ LET r == EmitCall(event, data,
                         [map |-> subscriptions, trace |-> <<>>, replaced |-> FALSE,
                          called |-> {}, removed |-> {}], 0)
       IN  /\ lastEmit' = [event |-> event, data |-> data,
                           before |-> IF event \in DOMAIN subscriptions
                                      THEN subscriptions[event] ELSE <<>>,
                           log |-> r.log, trace |-> r.st.trace, threw |-> r.threw]
           /\ subscriptions' = r.st.map
           /\ passes' = IF r.st.replaced THEN Detach(passes, {event}) ELSE passes
           /\ unsubscribed' = unsubscribed \cup r.st.called
           /\ removed' = removed \cup r.st.removed
    /\ UNCHANGED <<subscriptionCounter, closures>>
    /\ UNCHANGED <<serverVars, busEvents, transportVars, linkVars>>

NextBus ==
    \/ \E e \in EventNames, h \in SyncHandlers : On(e, h)
    \/ \E e \in EventNames, h \in SyncHandlers : Once(e, h)
    \/ \E i \in 1..MaxSubs : Unsubscribe(i)
    \/ \E e \in EventNames : Off(e)
    \/ Clear
    \/ \E e \in EventNames, d \in ParamValues : Emit(e, d)

SpecBus == InitIdle /\ [][NextBus]_vars

\* The bus with handlers that remove subscriptions while a pass is running.
NextBusRemove ==
    \/ \E e \in EventNames, h \in RemovingHandlers : On(e, h)
    \/ \E e \in EventNames, h \in RemovingHandlers : Once(e, h)
    \/ \E i \in 1..MaxSubs : Unsubscribe(i)
    \/ \E e \in EventNames : Off(e)
    \/ Clear
    \/ Emit("e1", 1)

SpecBusRemove == InitIdle /\ [][NextBusRemove]_vars

(***************************************************************************)
(* EventBus.emitAsync                                                      *)
(***************************************************************************)
\* The promise of one callback of subs.map(async (sub) => ...) without its
\* try/catch: a handler that throws or rejects rejects the callback.
CallbackSettled_NoCatch(sub, ok, toRemove) ==
    [st |-> IF ok THEN "fulfilled" ELSE "rejected",
     toRemove |-> IF ok /\ sub.once THEN toRemove \cup {sub.id} ELSE toRemove]

\* try { await sub.handler(data); if (sub.once) toRemove.push(sub.id) }
\* catch (error) { console.error(...) }: the callback's promise is fulfilled
\* whether the handler succeeded (ok) or threw or rejected.
CallbackSettled(sub, ok, toRemove) ==
    [st |-> IF ok THEN "fulfilled" ELSE "caught",
     toRemove |-> IF ok /\ sub.once THEN toRemove \cup {sub.id} ELSE toRemove]

\* subs.map(...) from position i on: every handler is called at once, in
\* order; one that throws settles its callback immediately, the others
\* settle later (a handler that returns no promise always successfully).
RECURSIVE AsyncLoop(_, _, _, _, _, _)
AsyncLoop(subs, i, event, data, acc, st) ==
    IF i > Len(subs) THEN [acc |-> acc, st |-> st]
    ELSE LET sub == subs[i]
             r == HandlerRuns(sub, event, data, st, 0)
             c == IF r.threw
                  THEN CallbackSettled(sub, FALSE, acc.toRemove)
                  ELSE [st |-> "pending", toRemove |-> acc.toRemove]
         IN  AsyncLoop(subs, i + 1, event, data,
                       [sts |-> Append(acc.sts, c.st), toRemove |-> c.toRemove], r.st)

\* Promise.all over the callbacks' promises.
PromiseAll(sts) ==
    IF \E i \in DOMAIN sts : sts[i] = "rejected" THEN "rejected"
    ELSE IF \E i \in DOMAIN sts : sts[i] = "pending" THEN "pending"
    ELSE "resolved"

\* emitAsync(event, data), up to its await.
EmitAsyncBody(event, data) ==
    /\ IF event \notin DOMAIN subscriptions
       THEN /\ passes' = Append(passes,
                [event |-> event, data |-> data, before |-> <<>>, subs |-> <<>>,
                 live |-> FALSE, sts |-> <<>>, toRemove |-> {}, trace |-> <<>>,
                 added |-> {}, promise |-> "resolved"])
            /\ UNCHANGED <<subscriptions, unsubscribed, removed>>
       ELSE LET subs == subscriptions[event]
                r == AsyncLoop(subs, 1, event, data, [sts |-> <<>>, toRemove |-> {}],
                               [map |-> subscriptions, trace |-> <<>>, replaced |-> FALSE,
                                called |-> {}, removed |-> {}])
                ps == IF r.st.replaced THEN Detach(passes, {event}) ELSE passes
            IN  /\ passes' = Append(ps,
                    [event |-> event, data |-> data, before |-> subs, subs |-> subs,
                     live |-> ~r.st.replaced, sts |-> r.acc.sts,
                     toRemove |-> r.acc.toRemove, trace |-> r.st.trace,
                     added |-> {}, promise |-> "pending"])
                /\ subscriptions' = r.st.map
                /\ unsubscribed' = unsubscribed \cup r.st.called
                /\ removed' = removed \cup r.st.removed
    /\ UNCHANGED <<subscriptionCounter, closures, lastEmit>>
    /\ UNCHANGED <<serverVars, busEvents, transportVars, linkVars>>

EmitAsync(event, data) ==
    /\ Len(passes) < MaxAsync
    /\ EmitAsyncBody(event, data)

\* emitAsync(event, data) where up to MaxOverlap calls are followed.
EmitAsyncOverlap(event, data) ==
    /\ Len(passes) < MaxOverlap
    /\ EmitAsyncBody(event, data)

\* The promise returned by handler i of pass p settles (ok: it is fulfilled).
AsyncSettles(p, i, ok) ==
    /\ p \in DOMAIN passes
    /\ i \in DOMAIN passes[p].sts
    /\ passes[p].promise = "pending"
    /\ passes[p].sts[i] = "pending"
    /\ ok \/ passes[p].before[i].handler = "async"
    /\ LET c == CallbackSettled(passes[p].before[i], ok, passes[p].toRemove)
       IN  passes' = [passes EXCEPT ![p].sts[i] = c.st, ![p].toRemove = c.toRemove]
    /\ UNCHANGED <<subscriptions, subscriptionCounter, closures, unsubscribed, removed, lastEmit>>
    /\ UNCHANGED <<serverVars, busEvents, transportVars, linkVars>>

\* The await Promise.all(...) of pass p returns or throws: the once
\* handlers are cleaned up out of the array the pass holds, and the promise
\* of emitAsync settles; the pass lets go of the array.
AsyncDone(p) ==
    /\ p \in DOMAIN passes
    /\ passes[p].promise = "pending"
    /\ PromiseAll(passes[p].sts) # "pending"
    /\ LET pass == passes[p]
           Kept(sub) == sub.id \notin pass.toRemove
           prune == PromiseAll(pass.sts) = "resolved" /\ pass.toRemove # {}
           ps == IF prune THEN Detach(passes, {pass.event}) ELSE passes
       IN  /\ subscriptions' =
                  IF prune
                  THEN MapSet(subscriptions, pass.event, SelectSeq(pass.subs, Kept))
                  ELSE subscriptions
           /\ passes' = [ps EXCEPT ![p].promise = PromiseAll(pass.sts),
                                   ![p].live = FALSE, ![p].subs = <<>>]
    /\ UNCHANGED <<subscriptionCounter, closures, unsubscribed, removed, lastEmit>>
    /\ UNCHANGED <<serverVars, busEvents, transportVars, linkVars>>

\* The passes are followed on one event: passes of different events share
\* no array.
NextBusAsync ==
    \/ \E h \in AsyncHandlers : On("e1", h)
    \/ \E h \in AsyncHandlers : Once("e1", h)
    \/ \E i \in 1..MaxSubs : Unsubscribe(i)
    \/ EmitAsync("e1", 1)
    \/ \E p \in 1..MaxAsync, i \in 1..MaxSubs, ok \in BOOLEAN : AsyncSettles(p, i, ok)
    \/ \E p \in 1..MaxAsync : AsyncDone(p)

SpecBusAsync == InitIdle /\ [][NextBusAsync]_vars

\* Overlapping emitAsync calls of one event, with handlers that return a
\* promise which is fulfilled later.
NextBusOverlap ==
    \/ On("e1", "async")
    \/ Once("e1", "async")
    \/ \E i \in 1..MaxSubs : Unsubscribe(i)
    \/ EmitAsyncOverlap("e1", 1)
    \/ \E p \in 1..MaxOverlap, i \in 1..MaxSubs : AsyncSettles(p, i, TRUE)
    \/ \E p \in 1..MaxOverlap : AsyncDone(p)

SpecBusOverlap == InitIdle /\ [][NextBusOverlap]_vars

(***************************************************************************)
(* Properties of EventBus.emit                                             *)
(***************************************************************************)
IsOn(sub) == ~sub.once
Called(sub, data) == <<sub.id, data>>

\* C10: emit(event, data) with N handlers subscribed through on() to that
\* event invokes each of the N exactly once with data, in the order in
\* which they were subscribed (ids grow in subscription order).
C10_EmitInOrder ==
    LET ons == SelectSeq(lastEmit.before, IsOn)
        IsOnCall(c) == \E k \in DOMAIN ons : ons[k].id = c[1]
        calls_ == SelectSeq(lastEmit.log, IsOnCall)
    IN  /\ Len(calls_) = Len(ons)
        /\ \A k \in DOMAIN ons : calls_[k] = Called(ons[k], lastEmit.data)
        /\ \A k \in DOMAIN ons : \A j \in DOMAIN ons : k < j => ons[k].id < ons[j].id

\* An emit found at least two handlers, all subscribed with on(), and called
\* them first to last.
C10_Witness ==
    /\ Len(lastEmit.before) >= 2
    /\ \A k \in DOMAIN lastEmit.before : ~lastEmit.before[k].once
    /\ Len(lastEmit.log) = Len(lastEmit.before)
    /\ lastEmit.log[1][1] < lastEmit.log[2][1]

\* How many times the subscription id was invoked by the latest emit(),
\* nested emit() calls included.
RECURSIVE Count(_, _)
Count(seq, id) ==
    IF seq = <<>> THEN 0
    ELSE (IF Head(seq)[1] = id THEN 1 ELSE 0) + Count(Tail(seq), id)

Subscribed(id) ==
    \E e \in DOMAIN subscriptions : \E k \in DOMAIN subscriptions[e] :
        subscriptions[e][k].id = id

\* C11: emit() never throws to its caller, and a handler that throws does
\* not stop the handlers subscribed after it: the pass invokes every
\* subscription of the list it found, first to last.
C11_EmitSurvivesThrow ==
    /\ ~lastEmit.threw
    /\ Len(lastEmit.log) = Len(lastEmit.before)
    /\ \A k \in DOMAIN lastEmit.before : lastEmit.log[k][1] = lastEmit.before[k].id

\* An emit found a throwing handler followed by another handler and invoked
\* the latter.
C11_Witness ==
    \E k \in DOMAIN lastEmit.before :
        /\ lastEmit.before[k].handler = "throws"
        /\ k + 1 \in DOMAIN lastEmit.before
        /\ k + 1 \in DOMAIN lastEmit.log
        /\ lastEmit.log[k + 1][1] = lastEmit.before[k + 1].id

\* C12: a handler subscribed with once() is invoked at most one time, also
\* when the event is emitted again from inside a handler while the pass is
\* still running: one emit() call invokes it at most once, nested passes
\* included, and once it has been invoked and has returned it is no longer
\* subscribed.
C12_OnceAtMostOnce ==
    \A k \in DOMAIN lastEmit.before :
        LET sub == lastEmit.before[k]
        IN  (sub.once /\ sub.handler # "throws")
                => /\ Count(lastEmit.trace, sub.id) <= 1
                   /\ ~Subscribed(sub.id)

\* C13: a once-subscription is removed after its first invocation even if
\* that invocation throws.
C13_OnceRemovedAfterThrow ==
    \A k \in DOMAIN lastEmit.before :
        LET sub == lastEmit.before[k]
        IN  (sub.once /\ sub.handler = "throws" /\ Count(lastEmit.trace, sub.id) > 0)
                => ~Subscribed(sub.id)

\* The map without the subscription id.
Without(map, id) ==
    [e \in DOMAIN map |-> SelectSeq(map[e], LAMBDA sub : sub.id # id)]

\* C14: the function returned by on()/once() is idempotent: its first call
\* removes exactly its own subscription, and in every state after that a
\* further call leaves all subscription lists as they are, whatever was
\* subscribed in between.
C14_UnsubscribeIdempotent ==
    [][ /\ \A id \in DOMAIN closures :
              (id \notin unsubscribed /\ id \in unsubscribed')
                  => subscriptions' = Without(subscriptions, id)
        /\ \A id \in unsubscribed' :
              /\ ~Subscribed(id)'
              /\ UnsubscribeBody(id, subscriptions') = subscriptions'
      ]_vars

\* C15: emitAsync() resolves only after every handler of the event has
\* settled and never rejects; every subscription of the list it found is
\* invoked, whatever the other handlers do.
C15_EmitAsyncWaitsForAll ==
    \A p \in DOMAIN passes :
        /\ passes[p].promise # "rejected"
        /\ passes[p].promise = "resolved"
              => \A i \in DOMAIN passes[p].sts : passes[p].sts[i] # "pending"
        /\ Len(passes[p].sts) = Len(passes[p].before)
        /\ \A k \in DOMAIN passes[p].before :
              Count(passes[p].trace, passes[p].before[k].id) = 1

\* An emitAsync has resolved after one of its handlers threw or rejected
\* and another one, invoked after it, was fulfilled.
C15_Witness ==
    \E p \in DOMAIN passes :
        /\ passes[p].promise = "resolved"
        /\ \E i, j \in DOMAIN passes[p].sts :
              /\ i < j
              /\ passes[p].sts[i] = "caught"
              /\ passes[p].sts[j] = "fulfilled"
              /\ passes[p].before[j].handler = "async"

(***************************************************************************)
(* Properties of MCPServer.readResource                                    *)
(***************************************************************************)
IsWildcard(pattern) == Len(pattern) > 0 /\ pattern[Len(pattern)] = "*"

\* The wildcard registrations, as the latest read found them, whose
\* stripped prefix the requested uri starts with.
WildcardMatches ==
    {i \in DOMAIN lastRead.before :
        /\ IsWildcard(lastRead.before[i].uri)
        /\ StartsWith(lastRead.uri, StripStar(lastRead.before[i].uri))}

ExactIndex == KeyIndex(lastRead.before, lastRead.uri)

\* C16: readResource(uri) for a uri with no exact registration invokes the
\* handler of the earliest-registered wildcard resource whose stripped
\* prefix is a prefix of uri, and passes it the full uri.
C16_EarliestWildcard ==
    (ExactIndex = 0 /\ WildcardMatches # {})
        => LET first == CHOOSE i \in WildcardMatches : \A j \in WildcardMatches : i <= j
           IN  /\ lastRead.handler = lastRead.before[first].handler
               /\ lastRead.arg = lastRead.uri

\* C17: readResource(uri) for a uri that is itself registered invokes the
\* handler registered under exactly that uri, also when a matching wildcard
\* resource was registered earlier.
C17_ExactFirst ==
    ExactIndex # 0
        => /\ lastRead.handler = lastRead.before[ExactIndex].handler
           /\ lastRead.arg = lastRead.uri

\* A read of a registered uri was served by its own handler although a
\* wildcard resource matching the uri had been registered before it.
C17_Witness ==
    /\ ExactIndex # 0
    /\ \E i \in WildcardMatches : i < ExactIndex
    /\ lastRead.handler = lastRead.before[ExactIndex].handler

\* C18: a resource registered under a uri without a trailing wildcard is
\* served only for exactly that uri.
C18_OnlyWildcardsMatchByPrefix ==
    \A i \in DOMAIN lastRead.before :
        (lastRead.handler = lastRead.before[i].handler
            /\ ~IsWildcard(lastRead.before[i].uri))
                => lastRead.before[i].uri = lastRead.uri

\* C19: a read that matches no registration, neither exactly nor by
\* wildcard prefix, rejects with not-found, invokes no handler and publishes
\* no event; a read that matches publishes the resource-read event before
\* it invokes the handler.
C19_NotFoundRejects ==
    IF ExactIndex = 0 /\ WildcardMatches = {}
    THEN lastRead.uri # <<>>
            => /\ lastRead.promise = "rejected: Resource not found"
               /\ lastRead.handler = 0
               /\ lastRead.log = <<>>
    ELSE lastRead.log = <<"mcp:resource:read", "handler">>

(***************************************************************************)
(* Properties of the tool registry                                         *)
(***************************************************************************)
\* C20: after any sequence of registerTool/unregisterTool calls listTools()
\* has at most one entry per name, namely the definition most recently
\* registered under it, and a callTool made then invokes the handler of
\* that definition.
C20_ReRegisterReplaces ==
    [][ /\ \A n \in ToolNames :
              Cardinality({e \in ListTools(tools') : e[1] = n}) <= 1
        /\ ListTools(tools') = ListTools(registered')
        /\ Len(calls') > Len(calls)
              => LET c == calls'[Len(calls')]
                 IN  /\ c.found = (c.name \in DOMAIN registered)
                     /\ c.found => c.handler = registered[c.name].handler
      ]_vars

\* A tool was called, registered again with another handler (only two
\* registry operations were made), and called again: the second call ran
\* the handler registered last.
C20_Witness ==
    /\ regs <= 2
    /\ \E i, j \in DOMAIN calls :
          /\ i < j
          /\ calls[i].name = calls[j].name
          /\ calls[i].found /\ calls[j].found
          /\ calls[i].handler # calls[j].handler
          /\ calls[i].handler # NoVal /\ calls[j].handler # NoVal
          /\ calls[j].name \in DOMAIN tools
          /\ calls[j].handler = tools[calls[j].name].handler

(***************************************************************************)
(* Properties of the events callTool publishes                             *)
(***************************************************************************)
\* C22: an invocation that finds a tool with a handler publishes one
\* tool-call event {name, params} at the moment the handler is invoked and
\* one tool-result event at the moment the handler has settled, carrying the
\* result the invocation resolves with (the handler's return value or the
\* converted error); a handler that throws synchronously publishes both, the
\* call first.  Not-found and no-handler publish nothing, and nothing else
\* publishes tool events.
C22_CallAndResultEvents ==
    [][ /\ Len(calls') > Len(calls) =>
              LET c == calls'[Len(calls')]
                  call == <<"mcp:tool:call", CallPayload(c)>>
                  result == <<"mcp:tool:result", ResultPayload(c, c.result)>>
              IN  IF c.handler = NoVal
                  THEN busEvents' = busEvents
                  ELSE IF c.st = "awaiting"
                  THEN busEvents' = Append(busEvents, call)
                  ELSE busEvents' = busEvents \o <<call, result>>
        /\ \A i \in DOMAIN calls :
              (calls[i].st = "awaiting" /\ calls'[i].st # "awaiting") =>
                  busEvents' = Append(busEvents,
                      <<"mcp:tool:result", ResultPayload(calls'[i], calls'[i].result)>>)
        /\ calls' = calls => busEvents' = busEvents
      ]_vars

(***************************************************************************)
(* Properties of notifications, transport attachment and lifecycle         *)
(***************************************************************************)
\* C21: every MCPServer.emit publishes the (timestamped) notification on the
\* Event Bus first and hands the same notification to the attached
\* transport's sendNotification after that publication; with no transport
\* attached it publishes on the Event Bus only.
C21_BusBeforeTransport ==
    [][ Published("mcp:notification")' > Published("mcp:notification") =>
          LET k == Len(busEvents')
              n == busEvents'[k][2]
          IN  /\ k = Len(busEvents) + 1
              /\ busEvents'[k][1] = "mcp:notification"
              /\ n.timestamp # NoVal
              /\ IF transport = NoVal
                 THEN outbox' = outbox
                 ELSE /\ outbox' = Append(outbox, Handoff(transport, n, k))
                      /\ \A j \in DOMAIN outbox' :
                            /\ outbox'[j].after \in DOMAIN busEvents'
                            /\ busEvents'[outbox'[j].after]
                                   = <<"mcp:notification", outbox'[j].n>>
      ]_vars

\* A notification without a timestamp was emitted with no transport attached
\* and went to the bus only; a later one was emitted with a transport
\* attached and was handed to it after its publication.
C21_Witness ==
    /\ Len(busEvents) = 2
    /\ busEvents[1][1] = "mcp:notification" /\ busEvents[1][2].timestamp = "now"
    /\ busEvents[2][1] = "mcp:notification"
    /\ Len(outbox) = 1
    /\ outbox[1].after = 2

Starts == {i \in DOMAIN life : life[i].op = "start"}
Stops == {i \in DOMAIN life : life[i].op = "stop"}

\* C23: the connected event is published once per start() that has resumed
\* after its connect() resolved and never for another start(): a start()
\* without a transport is rejected from the outset, one whose connect() is
\* not settled is still waiting, and a start() is rejected exactly when it
\* had no transport or its connect() rejected; stop() never rejects and
\* every stop() that has finished has published one disconnected event, with
\* or without a transport.
C23_LifecycleEvents ==
    /\ Published("mcp:connected")
           = Cardinality({i \in Starts : life[i].st = "resolved"})
    /\ \A i \in Starts :
          /\ life[i].t = NoVal => life[i].st = "rejected"
          /\ life[i].st = "resolved" => life[i].inner = "resolved"
          /\ life[i].inner = "pending" => life[i].st = "awaiting"
          /\ life[i].st = "rejected" <=> (life[i].t = NoVal \/ life[i].inner = "rejected")
    /\ Published("mcp:disconnected")
           = Cardinality({i \in Stops : life[i].st = "resolved"})
    /\ \A i \in Stops :
          /\ life[i].st \in {"awaiting", "resolved"}
          /\ life[i].t = NoVal => life[i].st = "resolved"

\* A start() was rejected because connect() rejected and published nothing;
\* a stop() on the attached transport then published the disconnected event.
C23_Witness ==
    /\ Len(life) = 2
    /\ life[1].op = "start" /\ life[1].inner = "rejected" /\ life[1].st = "rejected"
    /\ life[2].op = "stop" /\ life[2].t # NoVal /\ life[2].st = "resolved"
    /\ Published("mcp:connected") = 0
    /\ Published("mcp:disconnected") = 1

\* C24: emit hands the notification to the transport given to the latest
\* setTransport call and to no other; start() and stop() call connect() and
\* disconnect() on that transport and change no other transport; and
\* setTransport itself changes nothing of the transport it replaces.
C24_OnlyLatestTransport ==
    [][ /\ Published("mcp:notification")' > Published("mcp:notification") =>
              /\ tstate' = tstate
              /\ IF lastAttached = NoVal
                 THEN outbox' = outbox
                 ELSE /\ Len(outbox') = Len(outbox) + 1
                      /\ outbox'[Len(outbox')].to = lastAttached
                      /\ \A j \in DOMAIN outbox : outbox'[j] = outbox[j]
        /\ Len(life') > Len(life) =>
              /\ life'[Len(life')].t = lastAttached
              /\ \A t \in DOMAIN tstate : t # lastAttached => tstate'[t] = tstate[t]
        /\ lastAttached' # lastAttached =>
              \A t \in DOMAIN tstate : t # lastAttached' => tstate'[t] = tstate[t]
      ]_vars

\* A was attached and started; B then replaced it, received the next
\* notification and was stopped, and A is still connected.
C24_Witness ==
    /\ lastAttached = "B"
    /\ attached = {"A", "B"}
    /\ Len(outbox) = 1 /\ outbox[1].to = "B"
    /\ Len(life) = 2
    /\ life[1].op = "start" /\ life[1].t = "A" /\ life[1].st = "resolved"
    /\ life[2].op = "stop" /\ life[2].t = "B" /\ life[2].st = "resolved"
    /\ tstate["A"].connected
    /\ ~tstate["B"].connected

(***************************************************************************)
(* Properties of EmbeddedTransport                                         *)
(***************************************************************************)
\* C30: a simulateToolCall or simulateResourceRead made on a transport that
\* was never handed to setTransport returns a promise that is rejected from
\* the start and reaches no server operation; a simulateToolCall made after
\* setTransport reaches callTool and is not rejected, and for a tool that is
\* not registered it is resolved at once with a success=false result.
C30_SimulateBeforeAndAfterWiring ==
    \A k \in DOMAIN sims :
        LET s == sims[k]
        IN  IF ~s.wired
            THEN /\ s.promise = IF s.op = "tool"
                                THEN "rejected: No tool handler registered"
                                ELSE "rejected: No resource handler registered"
                 /\ s.call = 0
            ELSE s.op = "tool" =>
                    /\ s.promise = "callTool's"
                    /\ s.call \in DOMAIN calls
                    /\ calls[s.call].st \in {"awaiting", "resolved"}
                    /\ ~calls[s.call].found =>
                           /\ calls[s.call].st = "resolved"
                           /\ calls[s.call].result.success = FALSE
                           /\ calls[s.call].result.error # NoVal

\* A simulated tool call was rejected on a transport before setTransport;
\* after setTransport a simulated call of an unregistered tool on the same
\* transport resolved with a failure result.
C30_Witness ==
    /\ Len(sims) = 2
    /\ sims[1].op = "tool" /\ ~sims[1].wired
    /\ sims[2].op = "tool" /\ sims[2].wired /\ sims[2].t = sims[1].t
    /\ sims[2].call = 1
    /\ ~calls[1].found /\ calls[1].st = "resolved"

(***************************************************************************)
(* Properties of inbound traffic on the remote transports                  *)
(***************************************************************************)
InboundCalls == {i \in DOMAIN inbound : inbound[i].env.type \in ReqTypes}

\* The one response an inbound call is owed once its answer is due: it
\* carries the call's id, and it is the "no handler" error, a result when
\* the handler resolved, an error when the handler rejected.
Answers(r, replies) ==
    /\ Len(replies) = 1
    /\ replies[1].type = "response"
    /\ replies[1].id = r.env.id
    /\ IF r.handler = "none" THEN replies[1].error = NoHandlerError(r.env.type)
       ELSE IF r.handler = "resolved"
       THEN replies[1].result # NoVal /\ replies[1].error = NoVal
       ELSE replies[1].result = NoVal /\ replies[1].error # NoVal

\* C25: every tool_call or resource_read envelope received on an open
\* WebSocket has been answered by exactly one response with its id as soon
\* as it found no handler or its handler settled: the "no handler" error,
\* the handler's result, or an error when the handler rejected.
C25_ExactlyOneResponse ==
    kind = "ws" =>
        \A i \in InboundCalls :
            IF inbound[i].handler = "pending" THEN inbound[i].replies = <<>>
            ELSE Answers(inbound[i], inbound[i].replies)

\* An envelope handleMessage cannot dispatch, given the pending requests.
Undispatchable(env) ==
    \/ env.type \in {"bogus", "unparseable"}
    \/ env.type = "response" /\ env.id \notin pendingRequests

\* C26: receiving an envelope of an unknown type, a payload that is not
\* JSON, or a response whose id is not in pendingRequests changes neither
\* the connection state, nor the sockets, nor pendingRequests, sends
\* nothing, and settles no pending call.
C26_UndispatchableDropped ==
    [][ (Len(inbound') > Len(inbound)
            /\ kind = "ws"
            /\ Undispatchable(inbound'[Len(inbound')].env)) =>
          /\ connected' = connected
          /\ socks' = socks
          /\ cur' = cur
          /\ pendingRequests' = pendingRequests
          /\ lastSent' = lastSent
          /\ inbound'[Len(inbound')].replies = <<>>
          /\ \A id \in DOMAIN reqs :
                /\ reqs'[id].promise = reqs[id].promise
                /\ reqs'[id].settles = reqs[id].settles
      ]_vars

\* With request 1 outstanding, an envelope of an unknown type and a response
\* for id 2 were received: request 1 is still pending and unsettled.
C26_Witness ==
    /\ Len(inbound) = 2
    /\ inbound[1].env.type = "bogus"
    /\ inbound[2].env.type = "response" /\ inbound[2].env.id = 2
    /\ pendingRequests = {1}
    /\ reqs[1].promise.st = "pending"
    /\ connected

\* C27: on the HTTP+SSE transport every tool_call or resource_read event
\* that arrived while its handler was set has led to exactly one result
\* post tagged with its id once the handler has settled, whether the
\* handler resolved or rejected.
C27_SseAlwaysPostsResult ==
    kind = "sse" =>
        \A i \in InboundCalls :
            inbound[i].handler \in {"resolved", "rejected"} =>
                /\ Len(inbound[i].replies) = 1
                /\ inbound[i].replies[1].id = inbound[i].env.id

\* C28: when a stream reports open, its pending connect() promise is
\* resolved; when a stream that never opened ends with an error, its
\* connect() promise is rejected; when a stream that has been open ends with
\* an error, no promise changes, the transport is disconnected and, if it
\* was connected and attempts remain, a reconnect is scheduled.
C28_SseConnectOutcome ==
    [][ kind = "sse" =>
          \A s \in DOMAIN socks :
              /\ (socks[s].state # "open" /\ socks'[s].state = "open"
                     /\ socks[s].promise = "pending")
                     => socks'[s].promise = "resolved"
              /\ (socks[s].state # "closed" /\ socks'[s].state = "closed" /\ cur' = cur) =>
                     IF socks[s].promise = "pending"
                     THEN socks'[s].promise = "rejected"
                     ELSE /\ \A k \in DOMAIN socks : socks'[k].promise = socks[k].promise
                          /\ ~connected'
                          /\ (connected /\ reconnectAttempts < maxReconnectAttempts)
                                 => timers' = timers + 1
      ]_vars

\* C29: a step that disconnects the WebSocket transport, by disconnect() or
\* by the socket closing, leaves pendingRequests empty and neither resolves
\* nor rejects any request.
C29_DisconnectionClearsPending ==
    [][ (kind = "ws" /\ connected /\ ~connected') =>
          /\ pendingRequests' = {}
          /\ \A id \in DOMAIN reqs :
                /\ reqs'[id].promise = reqs[id].promise
                /\ reqs'[id].settles = reqs[id].settles
      ]_vars

(***************************************************************************)
(* Properties of correlation ids and of the connection lifecycle           *)
(***************************************************************************)
\* C34: every request takes the next value of requestCounter as its id, the
\* counter never goes back (not at disconnect() either), so the ids of the
\* calls made so far are strictly increasing in the order of the calls and
\* none is used twice; and a call is only ever settled by an envelope that
\* carries its own id.
C34_IdsNeverReused ==
    [][ /\ requestCounter' >= requestCounter
        /\ Len(reqs') > Len(reqs) =>
              /\ reqs'[Len(reqs')].id = requestCounter + 1
              /\ \A i \in DOMAIN reqs : reqs[i].id < reqs'[Len(reqs')].id
              /\ pendingRequests' = pendingRequests \cup {reqs'[Len(reqs')].id}
        /\ \A i \in DOMAIN reqs :
              (reqs'[i].settles > reqs[i].settles /\ reqs'[i].settledBy # NoEnvelope)
                  => reqs'[i].settledBy.id = reqs[i].id
      ]_vars

\* A call was made, disconnect() dropped its entry, and the call made after
\* the disconnect got the next id, which is the only one outstanding.
C34_Witness ==
    /\ Len(reqs) = 2
    /\ reqs[1].id = 1 /\ reqs[2].id = 2
    /\ cur = 0 /\ Len(socks) > 0
    /\ pendingRequests = {2}
    /\ reqs[1].promise = Pending

\* C37: once disconnect() has run (no current stream or socket) and until
\* connect() is called again, the transport does not become connected and
\* no stream or socket is created by a reconnect timer.
C37_StaysDisconnected ==
    [][ (cur = 0 /\ Len(socks) > 0) =>
          /\ ~connected'
          /\ Len(socks') > Len(socks) => timers' = timers
      ]_vars

Live == {s \in DOMAIN socks : socks[s].state \in {"connecting", "open"}}

\* C38: at most one stream or socket of the transport is connecting or open
\* at any time, and the connected flag is true exactly when the current
\* stream or socket is open.
C38_OneLiveChannel ==
    /\ Cardinality(Live) <= 1
    /\ connected <=> (cur # 0 /\ socks[cur].state = "open")

(***************************************************************************)
(* Properties of removal during an emit pass                               *)
(***************************************************************************)
\* C35: a subscription that has been removed (by its unsubscribe function,
\* by off(event) or by clear(), also from inside a handler of an earlier
\* pass) is not invoked by an emit() that starts afterwards, and a pass
\* invokes every subscription of the list it found when it started.
C35_RemovedNeverInvoked ==
    [][ lastEmit' # lastEmit =>
            /\ \A k \in DOMAIN lastEmit'.log : lastEmit'.log[k][1] \notin removed
            /\ Len(lastEmit'.log) = Len(lastEmit'.before)
            /\ \A k \in DOMAIN lastEmit'.log :
                   lastEmit'.log[k][1] = lastEmit'.before[k].id ]_vars
\* What was subscribed with on() while two emitAsync calls overlapped, and
\* not removed since, is still subscribed when both calls have settled.
AddedDuringOverlapStays ==
    \A p \in DOMAIN passes : \A q \in DOMAIN passes :
        (p < q /\ passes[p].promise # "pending" /\ passes[q].promise # "pending")
            => \A sub \in passes[p].added \cap passes[q].added :
                   (~sub.once /\ sub.id \notin removed) => Subscribed(sub.id)

\* C36: when an emitAsync call starts while handlers of an earlier call for
\* the same event are still pending, it invokes no once-subscription the
\* earlier call invoked; and a subscription made with on() while two calls
\* overlapped is still subscribed when both calls have settled.
C36_OverlapKeepsSubscriptions ==
    [][ /\ Len(passes') > Len(passes) =>
              \A p \in DOMAIN passes :
                  (HasPending(passes[p]) /\ passes[p].event = passes'[Len(passes')].event)
                      => \A k \in DOMAIN passes[p].before :
                             passes[p].before[k].once
                                 => Count(passes'[Len(passes')].trace,
                                          passes[p].before[k].id) = 0
        /\ AddedDuringOverlapStays'
      ]_vars
(***************************************************************************)
(* Properties of the in-process listeners                                  *)
(***************************************************************************)
\* The onNotification calls made so far whose registration has not been
\* removed, oldest first.
RECURSIVE Standing(_)
Standing(r) ==
    IF r = 0 THEN <<>>
    ELSE IF r \in released THEN Standing(r - 1) ELSE Append(Standing(r - 1), r)

\* C31: calling the function returned by one onNotification call removes
\* exactly that registration: every registration that has not been removed
\* (also one of the same listener function) is in the list, and
\* sendNotification calls each of them.
C31_IndependentlyRemovable ==
    /\ [k \in DOMAIN notificationListeners |-> notificationListeners[k].reg]
           = Standing(Len(registrations))
    /\ lastNote.calls = [k \in DOMAIN lastNote.before |-> lastNote.before[k].reg]
IsOpen(st, id) == \E k \in DOMAIN st.tabs.items : st.tabs.items[k] = id

\* C32: ui.setTheme with an unregistered theme id, and tabs.activate and
\* tabs.close with the id of no open tab, return success = false without
\* throwing, and leave the active theme and the active tab as they were.
C32_UnknownIdRejected ==
    LET unknown ==
            \/ lastTool.name = "ui.setTheme" /\ lastTool.id \notin lastTool.before.themes
            \/ /\ lastTool.name \in {"tabs.activate", "tabs.close"}
               /\ ~IsOpen(lastTool.before, lastTool.id)
    IN  unknown =>
            /\ ~lastTool.success
            /\ ~lastTool.threw
            /\ store.theme = lastTool.before.theme
            /\ store.tabs.activeId = lastTool.before.tabs.activeId

\* C39: the open tabs have pairwise distinct ids, the active tab id is null
\* or the id of an open tab, and closing the active tab makes the first
\* remaining tab active (null when none remains).
C39_TabsWellFormed ==
    /\ \A j \in DOMAIN store.tabs.items : \A k \in DOMAIN store.tabs.items :
           j # k => store.tabs.items[j] # store.tabs.items[k]
    /\ store.tabs.activeId = "null" \/ IsOpen(store, store.tabs.activeId)
    /\ (lastTool.name = "tabs.close" /\ lastTool.before.tabs.activeId = lastTool.id)
          => store.tabs.activeId =
                 IF store.tabs.items # <<>> THEN store.tabs.items[1] ELSE "null"
====
